---- MODULE Spec2Model ----
(***************************************************************************)
(* The room state engine of cb2 (server/state.py): the tick loop, the turn *)
(* state machine, action validation, card logic, desync/resync and the     *)
(* per-client drain, together with the client mirror (py_client).          *)
(*                                                                         *)
(* The room is a record of the fields of State; every method of State is   *)
(* an operator from a room record to a room record, so that a handler that *)
(* calls several methods is the composition of their operators.            *)
(***************************************************************************)
EXTENDS Integers, Sequences, FiniteSets, TLC

VARIABLES
    actors,              \* State._actors: actor id -> Actor (role, location, heading, actions)
    actor_order,         \* the iteration (insertion) order of the dict State._actors
    id_assigner,         \* State._id_assigner: the ids currently allocated
    spawn_points,        \* State._spawn_points
    cards,               \* the cards of State._map_provider: card id -> card
    map_update,          \* State._map_update: the map last composed for transmission
    objectives,          \* State._objectives
    objectives_stale,    \* State._objectives_stale
    map_stale,           \* State._map_stale
    synced,              \* State._synced
    action_history,      \* State._action_history: the per-actor action outbox
    turn_history,        \* State._turn_history: the per-actor turn state queue
    turn_state,          \* State._turn_state
    last_tick,           \* State._last_tick
    done,                \* State._done
    current_set_invalid, \* the local current_set_invalid of State.update
    record_log,          \* what the last handler wrote to State._record_log
    returned,            \* the value the last drain_message call returned, and to whom
    now,                 \* the wall clock, datetime.now()
    inputs,              \* how many inputs (admissions, departures, packets) the room has had
    mirror               \* per client session: Cb2Client's join state and its Game

vars == << actors, actor_order, id_assigner, spawn_points, cards, map_update,
           objectives, objectives_stale, map_stale, synced, action_history,
           turn_history, turn_state, last_tick, done, current_set_invalid,
           record_log, returned, now, inputs, mirror >>

----------------------------------------------------------------------------
(* Program constants. *)

LEADER_MOVES_PER_TURN == 5
FOLLOWER_MOVES_PER_TURN == 10
INITIAL_TURNS_LEFT == 6
LEADER_TURN_SECONDS == 60
FOLLOWER_TURN_SECONDS == 45
TICK_SECONDS == 1

LEADER == "LEADER"
FOLLOWER == "FOLLOWER"
NONE == "NONE"
Roles == {LEADER, FOLLOWER}

INIT == "INIT"
INSTANT == "INSTANT"
ROTATE == "ROTATE"
TRANSLATE == "TRANSLATE"
OUTLINE == "OUTLINE"
DEATH == "DEATH"

BLUE == "BLUE"
RED == "RED"
NOCOLOR == "NOCOLOR"

(* Bounds of the model. *)

MaxInputs == 2        \* admissions, departures and packets a behaviour contains
MaxPending == 2       \* pending proposed actions per actor
MaxTurnQueue == 2     \* turn states waiting in one actor's queue
MaxOutbox == 6        \* actions waiting in one actor's outbox
MaxClock == 2         \* the clock runs to MaxClock * ClockStep seconds
ClockStep == 30       \* the grain of the clock, in seconds
MaxOverrun == 1       \* TURN_COMPLETE is offered while turns_left > -1 - MaxOverrun
MaxObjectives == 1    \* objectives a behaviour contains
MaxSets == 6          \* sets collected before the behaviour starts
MaxGameInputs == 1    \* packets a behaviour that starts in mid-game contains
MaxFrames == 5        \* frames and socket events a client reads in a behaviour

----------------------------------------------------------------------------
(* Dictionaries are functions; these are Python's d[k] = v and del d[k]. *)

EmptyDict == [x \in {} |-> 0]

Put(d, k, v) == (k :> v) @@ d

Del(d, k) == [x \in (DOMAIN d) \ {k} |-> d[x]] @@ EmptyDict

Remove(seq, x) == SelectSeq(seq, LAMBDA y : y # x)

Min(S) == CHOOSE x \in S : \A y \in S : x <= y

RECURSIVE SortedSeq(_)
SortedSeq(S) == IF S = {} THEN << >> ELSE << Min(S) >> \o SortedSeq(S \ {Min(S)})

----------------------------------------------------------------------------
(* HecsCoord (hex.py): a triple (a, r, c) with a in {0, 1}. *)

Hecs(a, r, c) == [a |-> a, r |-> r, c |-> c]

HecsAdd(x, y) ==
    LET carry == IF x.a = 1 /\ y.a = 1 THEN 1 ELSE 0
    IN  Hecs((x.a + y.a) % 2, x.r + y.r + carry, x.c + y.c + carry)

\* cartesian() is (a/2 + c, sqrt(3) * (a/2 + r)); this is 4 * (x^2 + y^2).
CartesianNormSq4(h) == (h.a + 2 * h.c) * (h.a + 2 * h.c) + 3 * (h.a + 2 * h.r) * (h.a + 2 * h.r)

----------------------------------------------------------------------------
(* Action (messages/action.py) and the actions the model's clients send. *)

Action(id, type, displacement, rotation, radius, color) ==
    [id |-> id, action_type |-> type, displacement |-> displacement,
     rotation |-> rotation, border_radius |-> radius, border_color |-> color]

Walk(id, displacement) == Action(id, TRANSLATE, displacement, 0, 0, NOCOLOR)

Turn(id, angle) == Action(id, ROTATE, Hecs(0, 0, 0), angle, 0, NOCOLOR)

\* card.py: an OUTLINE of the card, with a border when selected; the color
\* defaults to blue.
CardSelectAction(card_id, selected, color) ==
    Action(card_id, OUTLINE, Hecs(0, 0, 0), 0, IF selected THEN 1 ELSE 0, color)

----------------------------------------------------------------------------
(* TurnState (messages/turn_state.py). *)

TurnUpdate(turn, moves_remaining, turns_left, turn_end, game_start, sets_collected, score) ==
    [turn |-> turn, moves_remaining |-> moves_remaining, turns_left |-> turns_left,
     turn_end |-> turn_end, game_start |-> game_start,
     sets_collected |-> sets_collected, score |-> score, game_over |-> FALSE]

GameOverMessage(game_start, sets_collected, score, t) ==
    [turn |-> NONE, moves_remaining |-> 0, turns_left |-> 0,
     turn_end |-> t, game_start |-> game_start,
     sets_collected |-> sets_collected, score |-> score, game_over |-> TRUE]

NoMessage == [type |-> "NONE"]

\* No drain_message call has returned.
NoReturn == [to |-> -1, message |-> NoMessage]

----------------------------------------------------------------------------
(* The room: the fields of State, as one record, read from the variables. A  *)
(* handler starts with an empty log and with no drain result.                *)

Room ==
    [actors |-> actors, actor_order |-> actor_order, id_assigner |-> id_assigner,
     spawn_points |-> spawn_points, cards |-> cards, map_update |-> map_update,
     objectives |-> objectives, objectives_stale |-> objectives_stale,
     map_stale |-> map_stale, synced |-> synced, action_history |-> action_history,
     turn_history |-> turn_history, turn_state |-> turn_state, last_tick |-> last_tick,
     done |-> done, current_set_invalid |-> current_set_invalid,
     record_log |-> << >>, returned |-> NoReturn]

\* The variables take the fields of the room a handler leaves.
Becomes(s) ==
    /\ actors' = s.actors
    /\ actor_order' = s.actor_order
    /\ id_assigner' = s.id_assigner
    /\ spawn_points' = s.spawn_points
    /\ cards' = s.cards
    /\ map_update' = s.map_update
    /\ objectives' = s.objectives
    /\ objectives_stale' = s.objectives_stale
    /\ map_stale' = s.map_stale
    /\ synced' = s.synced
    /\ action_history' = s.action_history
    /\ turn_history' = s.turn_history
    /\ turn_state' = s.turn_state
    /\ last_tick' = s.last_tick
    /\ done' = s.done
    /\ current_set_invalid' = s.current_set_invalid
    /\ record_log' = s.record_log
    /\ returned' = s.returned

----------------------------------------------------------------------------
(* State: turn state. *)

\* Every turn lasts as long as the leader's.
turn_duration_of_leader(role) == LEADER_TURN_SECONDS

turn_duration(role) == IF role = LEADER THEN LEADER_TURN_SECONDS ELSE FOLLOWER_TURN_SECONDS

moves_per_turn(role) == IF role = LEADER THEN LEADER_MOVES_PER_TURN ELSE FOLLOWER_MOVES_PER_TURN

record_turn_state(s, ts) ==
    [s EXCEPT
        !.record_log = Append(@, [kind |-> "turn_state", turn_state |-> ts]),
        !.turn_state = ts,
        !.turn_history =
            [id \in (DOMAIN @) \cup (DOMAIN s.actors) |->
                IF id \in DOMAIN s.actors
                THEN Append(IF id \in DOMAIN @ THEN @[id] ELSE << >>, ts)
                ELSE @[id]]]

\* The room is left running.
end_game_left_running(s) == s

end_game(s) == [s EXCEPT !.done = TRUE]

\* The action goes to the front of every outbox.
record_action_newest_first(s, action) ==
    [s EXCEPT
        !.record_log = Append(@, [kind |-> "action", action |-> action]),
        !.action_history =
            [id \in DOMAIN @ |->
                IF id \in DOMAIN s.actors THEN << action >> \o @[id] ELSE @[id]]]

\* A variant: an action is not echoed to the actor that made it.
record_action_to_others(s, action) ==
    [s EXCEPT
        !.record_log = Append(@, [kind |-> "action", action |-> action]),
        !.action_history =
            [id \in DOMAIN @ |->
                IF id \in DOMAIN s.actors /\ id # action.id THEN Append(@[id], action) ELSE @[id]]]

record_action(s, action) ==
    [s EXCEPT
        !.record_log = Append(@, [kind |-> "action", action |-> action]),
        !.action_history =
            [id \in DOMAIN @ |->
                IF id \in DOMAIN s.actors THEN Append(@[id], action) ELSE @[id]]]

\* Every call takes one move, also the call that ends the turn.
end_turn_if_over_counting_down(s, t, force_turn_end) ==
    LET ts == s.turn_state
        opposite_role == IF ts.turn = FOLLOWER THEN LEADER ELSE FOLLOWER
        end_of_turn == (t >= ts.turn_end) \/ force_turn_end
        next_role == IF end_of_turn THEN opposite_role ELSE ts.turn
        turns_left == IF end_of_turn THEN ts.turns_left - 1 ELSE ts.turns_left
        turn_end == IF end_of_turn THEN t + turn_duration(next_role) ELSE ts.turn_end
    IN  record_turn_state(s,
            TurnUpdate(next_role, ts.moves_remaining - 1, turns_left, turn_end,
                       ts.game_start, ts.sets_collected, ts.score))

\* t is the clock as end_turn_if_over reads it.
end_turn_if_over(s, t, force_turn_end) ==
    LET ts == s.turn_state
        opposite_role == IF ts.turn = FOLLOWER THEN LEADER ELSE FOLLOWER
        end_of_turn == (t >= ts.turn_end) \/ force_turn_end
        next_role == IF end_of_turn THEN opposite_role ELSE ts.turn
        moves_remaining ==
            IF end_of_turn THEN moves_per_turn(next_role)
            ELSE IF ts.moves_remaining - 1 > 0 THEN ts.moves_remaining - 1 ELSE 0
        turns_left == IF end_of_turn THEN ts.turns_left - 1 ELSE ts.turns_left
        turn_end == IF end_of_turn THEN t + turn_duration(next_role) ELSE ts.turn_end
    IN  record_turn_state(s,
            TurnUpdate(next_role, moves_remaining, turns_left, turn_end,
                       ts.game_start, ts.sets_collected, ts.score))

----------------------------------------------------------------------------
(* Actor (state.py). *)

NewActor(role, spawn) ==
    [role |-> role, location |-> spawn, heading_degrees |-> 0, actions |-> << >>]

add_action(s, actor_id, action) ==
    [s EXCEPT !.actors[actor_id].actions = Append(@, action)]

has_actions(s, actor_id) == s.actors[actor_id].actions # << >>

peek(s, actor_id) == Head(s.actors[actor_id].actions)

step(s, actor_id) ==
    IF ~has_actions(s, actor_id) THEN s
    ELSE LET action == Head(s.actors[actor_id].actions)
         IN  [s EXCEPT
                !.actors[actor_id].actions = Tail(@),
                !.actors[actor_id].location = HecsAdd(@, action.displacement),
                !.actors[actor_id].heading_degrees = @ + action.rotation]

drop(s, actor_id) ==
    IF ~has_actions(s, actor_id) THEN s
    ELSE [s EXCEPT !.actors[actor_id].actions = Tail(@)]

----------------------------------------------------------------------------
(* IdAssigner (util.py): the smallest id not allocated; a freed id is reused. *)

alloc(allocated) == Min({i \in 0..Cardinality(allocated) : i \notin allocated})

----------------------------------------------------------------------------
(* MapProvider (map_provider.py): the cards, keyed by prop id. *)

Card(location, color, shape, count) ==
    [location |-> location, color |-> color, shape |-> shape, count |-> count,
     selected |-> FALSE]

selected_ids(cs) == {id \in DOMAIN cs : cs[id].selected}

selected_cards(cs) == SortedSeq(selected_ids(cs))

share_attribute(x, y) == x.color = y.color \/ x.shape = y.shape \/ x.count = y.count

selected_cards_collide(cs) ==
    \/ Cardinality(selected_ids(cs)) > 3
    \/ \E i, j \in selected_ids(cs) : i # j /\ share_attribute(cs[i], cs[j])

selected_valid_set(cs) ==
    /\ Cardinality(selected_ids(cs)) = 3
    /\ \A i, j \in selected_ids(cs) : i # j => ~share_attribute(cs[i], cs[j])

\* The id of the card at location h, or -1 for None.
card_by_location(cs, h) ==
    IF \E id \in DOMAIN cs : cs[id].location = h
    THEN CHOOSE id \in DOMAIN cs : cs[id].location = h
    ELSE -1

set_selected(s, card_id, selected) ==
    IF card_id \in DOMAIN s.cards
    THEN [s EXCEPT !.cards[card_id].selected = selected]
    ELSE s

remove_card(s, card_id) ==
    [s EXCEPT !.cards = Del(@, card_id), !.id_assigner = @ \ {card_id}]

Max(S) == CHOOSE x \in S : \A y \in S : x >= y

\* The provider's random choice for three fresh cards is one of two draws: a
\* set, or three cards of which two share a color; either is placed on the
\* three cells east of every actor and card, which are free.
random_cards(s, draw) ==
    LET east == Max({0} \cup {s.actors[id].location.c : id \in DOMAIN s.actors}
                        \cup {s.cards[id].location.c : id \in DOMAIN s.cards})
    IN  << Card(Hecs(0, 0, east + 1), 1, 1, 1),
           Card(Hecs(0, 0, east + 2), IF draw = 1 THEN 2 ELSE 1, 2, 2),
           Card(Hecs(0, 0, east + 3), 3, 3, 3) >>

RECURSIVE add_cards(_, _)
add_cards(s, new_cards) ==
    IF new_cards = << >> THEN s
    ELSE LET id == alloc(s.id_assigner)
         IN  add_cards(
                [s EXCEPT !.cards = Put(@, id, Head(new_cards)),
                          !.id_assigner = @ \cup {id}],
                Tail(new_cards))

\* add_random_cards(3): three fresh cards, each with a newly allocated id.
add_random_cards(s, draw) == add_cards(s, random_cards(s, draw))

----------------------------------------------------------------------------
(* State: desync, validation, card step-on. *)

\* A variant: every actor of the room is marked out of sync.
desync_everyone(s, actor_id) ==
    [s EXCEPT !.synced = [id \in (DOMAIN @) \cup {actor_id} |-> FALSE]]

desync(s, actor_id) == [s EXCEPT !.synced = Put(@, actor_id, FALSE)]

\* The actors of the room keep their synced bits.
desync_nobody(s) == s

desync_all(s) ==
    [s EXCEPT !.synced =
        [id \in (DOMAIN @) \cup (DOMAIN s.actors) |->
            IF id \in DOMAIN s.actors THEN FALSE ELSE @[id]]]

\* Steps of up to two cells pass.
TooLongBeyondTwo(displacement) == CartesianNormSq4(displacement) * 1000000 > 4 * 4004001

\* sqrt(x^2 + y^2) > 1.001, on 4 * (x^2 + y^2), an integer.
TooLong(displacement) == CartesianNormSq4(displacement) * 1000000 > 4 * 1002001

\* rotation > 60.01, the rotation being whole degrees.
TooSharp(rotation) == rotation * 100 > 6001

valid_action(actor_id, action) ==
    IF action.action_type = TRANSLATE /\ TooLong(action.displacement) THEN FALSE
    ELSE IF action.action_type = ROTATE /\ TooSharp(action.rotation) THEN FALSE
    ELSE TRUE

\* A variant: the outline is blue whatever the color handed in.
check_for_stepped_on_cards_in_blue(s, actor_id, action, color) ==
    LET stepped_on_card == card_by_location(s.cards, s.actors[actor_id].location)
    IN  IF action.action_type = TRANSLATE /\ stepped_on_card # -1
        THEN LET selected == ~s.cards[stepped_on_card].selected
             IN  record_action(set_selected(s, stepped_on_card, selected),
                               CardSelectAction(stepped_on_card, selected, BLUE))
        ELSE s

check_for_stepped_on_cards(s, actor_id, action, color) ==
    LET stepped_on_card == card_by_location(s.cards, s.actors[actor_id].location)
    IN  IF action.action_type = TRANSLATE /\ stepped_on_card # -1
        THEN LET selected == ~s.cards[stepped_on_card].selected
             IN  record_action(set_selected(s, stepped_on_card, selected),
                               CardSelectAction(stepped_on_card, selected, color))
        ELSE s

----------------------------------------------------------------------------
(* State.update: one iteration of the tick loop. *)

\* A valid action is committed and no move is taken for it.
handle_actor_free_move(s, actor_id, t) ==
    IF ~has_actions(s, actor_id) THEN s
    ELSE LET proposed_action == peek(s, actor_id)
         IN  IF s.turn_state.turn # s.actors[actor_id].role
             THEN desync(drop(s, actor_id), actor_id)
             ELSE IF s.turn_state.moves_remaining = 0
             THEN desync(drop(s, actor_id), actor_id)
             ELSE IF valid_action(actor_id, proposed_action)
             THEN LET color == IF ~s.current_set_invalid THEN BLUE ELSE RED
                      stepped == record_action(step(s, actor_id), proposed_action)
                  IN  check_for_stepped_on_cards(stepped, actor_id, proposed_action, color)
             ELSE [desync(drop(s, actor_id), actor_id) EXCEPT
                     !.record_log = Append(@, [kind |-> "error", actor_id |-> actor_id])]

\* Lines 150-177 for one actor; t is the clock as the iteration reads it here.
handle_actor(s, actor_id, t) ==
    IF ~has_actions(s, actor_id) THEN s
    ELSE LET proposed_action == peek(s, actor_id)
         IN  IF s.turn_state.turn # s.actors[actor_id].role
             THEN desync(drop(s, actor_id), actor_id)
             ELSE IF s.turn_state.moves_remaining = 0
             THEN desync(drop(s, actor_id), actor_id)
             ELSE IF valid_action(actor_id, proposed_action)
             THEN LET color == IF ~s.current_set_invalid THEN BLUE ELSE RED
                      stepped == record_action(step(s, actor_id), proposed_action)
                  IN  end_turn_if_over(
                        check_for_stepped_on_cards(stepped, actor_id, proposed_action, color),
                        t, FALSE)
             ELSE [desync(drop(s, actor_id), actor_id) EXCEPT
                     !.record_log = Append(@, [kind |-> "error", actor_id |-> actor_id])]

RECURSIVE handle_actors(_, _, _)
handle_actors(s, ids, t) ==
    IF ids = << >> THEN s
    ELSE handle_actors(handle_actor(s, Head(ids), t), Tail(ids), t)

RECURSIVE outline_cards(_, _, _, _)
outline_cards(s, ids, selected, color) ==
    IF ids = << >> THEN s
    ELSE outline_cards(record_action(s, CardSelectAction(Head(ids), selected, color)),
                       Tail(ids), selected, color)

RECURSIVE clear_cards(_, _)
clear_cards(s, ids) ==
    IF ids = << >> THEN s
    ELSE clear_cards(
            remove_card(
                record_action(set_selected(s, Head(ids), FALSE),
                              CardSelectAction(Head(ids), FALSE, BLUE)),
                Head(ids)),
            Tail(ids))

\* The fourth set is worth as much as the third.
added_turns_late_four(sets_collected) ==
    IF sets_collected = 0 THEN 5
    ELSE IF sets_collected \in {1, 2, 3} THEN 4
    ELSE IF sets_collected = 4 THEN 3
    ELSE 0

added_turns(sets_collected) ==
    IF sets_collected = 0 THEN 5
    ELSE IF sets_collected \in {1, 2} THEN 4
    ELSE IF sets_collected \in {3, 4} THEN 3
    ELSE 0

\* Lines 200-227.
collect_set(s, selected, draw) ==
    LET ts == s.turn_state
        new_turn_state ==
            TurnUpdate(ts.turn, ts.moves_remaining, ts.turns_left + added_turns(ts.sets_collected),
                       ts.turn_end, ts.game_start, ts.sets_collected + 1, ts.score + 1)
    IN  add_random_cards(
            clear_cards(record_turn_state([s EXCEPT !.current_set_invalid = FALSE],
                                          new_turn_state),
                        selected),
            draw)

\* Lines 229-233.
mark_map_stale(s) ==
    [s EXCEPT !.map_update = s.cards,
              !.map_stale = [id \in (DOMAIN @) \cup (DOMAIN s.actors) |->
                                IF id \in DOMAIN s.actors THEN TRUE ELSE @[id]]]

\* A variant: a selection once found invalid stays invalid until a set is
\* collected.
card_logic_never_cleared(s, draw) ==
    LET selected == selected_cards(s.cards)
        now_invalid == selected_cards_collide(s.cards) /\ ~s.current_set_invalid
        s1 == IF now_invalid
              THEN outline_cards([s EXCEPT !.current_set_invalid = TRUE], selected, TRUE, RED)
              ELSE s
        valid_set == selected_valid_set(s1.cards)
        s3 == IF valid_set THEN collect_set(s1, selected, draw) ELSE s1
        cards_changed == now_invalid \/ valid_set
    IN  IF cards_changed THEN mark_map_stale(s3) ELSE s3

\* Lines 179-233.
card_logic(s, draw) ==
    LET selected == selected_cards(s.cards)
        now_invalid == selected_cards_collide(s.cards) /\ ~s.current_set_invalid
        s1 == IF now_invalid
              THEN outline_cards([s EXCEPT !.current_set_invalid = TRUE], selected, TRUE, RED)
              ELSE s
        now_clear == ~selected_cards_collide(s1.cards) /\ s1.current_set_invalid
        s2 == IF now_clear
              THEN outline_cards([s1 EXCEPT !.current_set_invalid = FALSE], selected, TRUE, BLUE)
              ELSE s1
        valid_set == selected_valid_set(s2.cards)
        s3 == IF valid_set THEN collect_set(s2, selected, draw) ELSE s2
        cards_changed == now_invalid \/ now_clear \/ valid_set
    IN  IF cards_changed THEN mark_map_stale(s3) ELSE s3

\* One iteration of the loop of update (lines 117-233). t1 is the clock as lines
\* 135-147 read it, t2 >= t1 the clock as the actions' end_turn_if_over reads it.
update(s, t1, t2, draw) ==
    IF s.turn_state.turns_left = -1
    THEN end_game(record_turn_state(s,
            GameOverMessage(s.turn_state.game_start, s.turn_state.sets_collected,
                            s.turn_state.score, t1)))
    ELSE LET ts == s.turn_state
             s1 == IF t1 > s.last_tick + TICK_SECONDS
                   THEN record_turn_state([s EXCEPT !.last_tick = t1],
                            TurnUpdate(ts.turn, ts.moves_remaining, ts.turns_left, ts.turn_end,
                                       ts.game_start, ts.sets_collected, ts.score))
                   ELSE s
             s2 == IF t1 >= s1.turn_state.turn_end THEN end_turn_if_over(s1, t1, FALSE) ELSE s1
             s3 == handle_actors(s2, s2.actor_order, t2)
         IN  card_logic(s3, draw)

----------------------------------------------------------------------------
(* State: the input entry points. *)

\* A variant: the action is queued for the actor it names.
handle_action_as_named(s, actor_id, action) ==
    IF action.id \in DOMAIN s.actors THEN add_action(s, action.id, action) ELSE s

handle_action(s, actor_id, action) ==
    IF action.id # actor_id THEN desync(s, actor_id)
    ELSE add_action(s, actor_id, action)

RECURSIVE handle_actions(_, _, _)
handle_actions(s, actor_id, actions) ==
    IF actions = << >> THEN s
    ELSE handle_actions(handle_action(s, actor_id, Head(actions)), actor_id, Tail(actions))

all_objectives_stale(s) ==
    [s EXCEPT !.objectives_stale =
        [id \in (DOMAIN @) \cup (DOMAIN s.actors) |->
            IF id \in DOMAIN s.actors THEN TRUE ELSE @[id]]]

\* An objective is taken from any actor.
handle_objective_from_anyone(s, id, objective) ==
    all_objectives_stale(
        [s EXCEPT !.objectives =
            Append(@, [text |-> objective.text, uuid |-> Len(@) + 1,
                       completed |-> FALSE])])

\* uuid4() is a value no objective of the room has yet.
handle_objective(s, id, objective) ==
    IF s.actors[id].role # LEADER THEN s
    ELSE all_objectives_stale(
            [s EXCEPT !.objectives =
                Append(@, [text |-> objective.text, uuid |-> Len(@) + 1,
                           completed |-> FALSE])])

\* The follower who completes an objective is marked out of sync.
handle_objective_complete_desyncing(s, id, objective_complete) ==
    IF s.actors[id].role # FOLLOWER THEN s
    ELSE LET hits == {i \in 1..Len(s.objectives) :
                        s.objectives[i].uuid = objective_complete.uuid}
         IN  desync(
                all_objectives_stale(
                    IF hits = {} THEN s
                    ELSE [[s EXCEPT !.objectives[Min(hits)].completed = TRUE] EXCEPT
                            !.record_log = Append(@, [kind |-> "objective_complete",
                                                      uuid |-> objective_complete.uuid])]),
                id)

handle_objective_complete(s, id, objective_complete) ==
    IF s.actors[id].role # FOLLOWER THEN s
    ELSE LET hits == {i \in 1..Len(s.objectives) :
                        s.objectives[i].uuid = objective_complete.uuid}
         IN  all_objectives_stale(
                IF hits = {} THEN s
                ELSE [[s EXCEPT !.objectives[Min(hits)].completed = TRUE] EXCEPT
                        !.record_log = Append(@, [kind |-> "objective_complete",
                                                  uuid |-> objective_complete.uuid])])

\* Either actor ends the turn, whoever owns it.
handle_turn_complete_by_anyone(s, id, t) == end_turn_if_over(s, t, TRUE)

\* t is the clock as end_turn_if_over reads it.
handle_turn_complete(s, id, t) ==
    IF s.actors[id].role # s.turn_state.turn THEN s
    ELSE end_turn_if_over(s, t, TRUE)

handle_packet(s, id, message, t) ==
    IF message.type = "ACTIONS" THEN handle_actions(s, id, message.actions)
    ELSE IF message.type = "OBJECTIVE" THEN handle_objective(s, id, message.objective)
    ELSE IF message.type = "OBJECTIVE_COMPLETED"
         THEN handle_objective_complete(s, id, message.objective_complete)
    ELSE IF message.type = "TURN_COMPLETE" THEN handle_turn_complete(s, id, t)
    ELSE IF message.type = "STATE_SYNC_REQUEST" THEN desync(s, id)
    ELSE s

----------------------------------------------------------------------------
(* State: admission and departure. *)

\* The spawn point is popped from the end of the list.
create_actor(s, role) ==
    LET spawn_point == IF s.spawn_points # << >>
                       THEN s.spawn_points[Len(s.spawn_points)] ELSE Hecs(0, 0, 0)
        id == alloc(s.id_assigner)
    IN  desync_all(
            [s EXCEPT
                !.spawn_points = IF @ # << >> THEN SubSeq(@, 1, Len(@) - 1) ELSE @,
                !.id_assigner = @ \cup {id},
                !.actors = Put(@, id, NewActor(role, spawn_point)),
                !.actor_order = Append(Remove(@, id), id),
                !.action_history = Put(@, id, << >>),
                !.synced = Put(@, id, FALSE)])

\* A variant: the departure is not announced to the actors that remain.
free_actor_without_desync(s, actor_id) ==
    [s EXCEPT
        !.actors = Del(@, actor_id),
        !.actor_order = Remove(@, actor_id),
        !.action_history = Del(@, actor_id),
        !.objectives_stale = Del(@, actor_id),
        !.turn_history = Del(@, actor_id),
        !.id_assigner = @ \ {actor_id}]

free_actor(s, actor_id) ==
    desync_all(
        [s EXCEPT
            !.actors = Del(@, actor_id),
            !.actor_order = Remove(@, actor_id),
            !.action_history = Del(@, actor_id),
            !.objectives_stale = Del(@, actor_id),
            !.turn_history = Del(@, actor_id),
            !.id_assigner = @ \ {actor_id}])

----------------------------------------------------------------------------
(* State: the drain. Each drain leaves what it returns in s.returned. *)

Returns(s, player_id, message) == [s EXCEPT !.returned = [to |-> player_id, message |-> message]]

is_synced(s, actor_id) == s.synced[actor_id]

\* state(actor_id): every actor's state, in the order of the actor table.
state(s, actor_id) ==
    [population |-> Len(s.actor_order),
     actors |-> [i \in 1..Len(s.actor_order) |->
                    [actor_id |-> s.actor_order[i],
                     location |-> s.actors[s.actor_order[i]].location,
                     rotation_degrees |-> s.actors[s.actor_order[i]].heading_degrees]],
     player_id |-> actor_id]

\* The state sync is returned and the actor stays marked out of sync.
sync_message_left_pending(s, actor_id) ==
    Returns(s, actor_id, [type |-> "STATE_SYNC", state |-> state(s, actor_id)])

sync_message_for_transmission(s, actor_id) ==
    Returns([s EXCEPT !.synced = Put(@, actor_id, TRUE)], actor_id,
            [type |-> "STATE_SYNC", state |-> state(s, actor_id)])

map_is_stale(s, actor_id) == actor_id \notin DOMAIN s.map_stale \/ s.map_stale[actor_id]

drain_map_update(s, actor_id) ==
    Returns([s EXCEPT !.map_stale = Put(@, actor_id, FALSE)], actor_id,
            [type |-> "MAP_UPDATE", map_update |-> s.map_update])

has_actions_to_drain(s, actor_id) ==
    actor_id \in DOMAIN s.action_history /\ s.action_history[actor_id] # << >>

\* A variant: one action of the outbox is returned at a time.
drain_actions_one_by_one(s, actor_id) ==
    Returns([s EXCEPT !.action_history[actor_id] = Tail(@)], actor_id,
            [type |-> "ACTIONS", actions |-> << Head(s.action_history[actor_id]) >>])

drain_actions(s, actor_id) ==
    Returns([s EXCEPT !.action_history[actor_id] = << >>], actor_id,
            [type |-> "ACTIONS", actions |-> s.action_history[actor_id]])

\* drain_objectives marks the list fresh also when it is empty and nothing is sent.
objectives_are_stale(s, actor_id) ==
    actor_id \notin DOMAIN s.objectives_stale \/ s.objectives_stale[actor_id]

fresh_objectives(s, actor_id) ==
    IF objectives_are_stale(s, actor_id)
    THEN [s EXCEPT !.objectives_stale = Put(@, actor_id, FALSE)]
    ELSE s

drain_objectives(s, actor_id) ==
    Returns(fresh_objectives(s, actor_id), actor_id,
            [type |-> "OBJECTIVE", objectives |-> s.objectives])

has_turn_state(s, actor_id) ==
    actor_id \in DOMAIN s.turn_history /\ s.turn_history[actor_id] # << >>

\* drain_turn_state creates the actor's queue when it has none.
with_turn_queue(s, actor_id) ==
    IF actor_id \in DOMAIN s.turn_history THEN s
    ELSE [s EXCEPT !.turn_history = Put(@, actor_id, << >>)]

drain_turn_state(s, actor_id) ==
    Returns([s EXCEPT !.turn_history[actor_id] = Tail(@)], actor_id,
            [type |-> "GAME_STATE", turn_state |-> Head(s.turn_history[actor_id])])

\* The outbox is drained ahead of the state sync.
drain_message_actions_first(s, player_id) ==
    IF map_is_stale(s, player_id) THEN drain_map_update(s, player_id)
    ELSE IF has_actions_to_drain(s, player_id) THEN drain_actions(s, player_id)
    ELSE IF ~is_synced(s, player_id) THEN sync_message_for_transmission(s, player_id)
    ELSE IF objectives_are_stale(s, player_id) /\ s.objectives # << >>
         THEN drain_objectives(s, player_id)
    ELSE IF has_turn_state(s, player_id)
         THEN drain_turn_state(fresh_objectives(s, player_id), player_id)
    ELSE Returns(with_turn_queue(fresh_objectives(s, player_id), player_id),
                 player_id, NoMessage)

drain_message(s, player_id) ==
    IF map_is_stale(s, player_id) THEN drain_map_update(s, player_id)
    ELSE IF ~is_synced(s, player_id) THEN sync_message_for_transmission(s, player_id)
    ELSE IF has_actions_to_drain(s, player_id) THEN drain_actions(s, player_id)
    ELSE IF objectives_are_stale(s, player_id) /\ s.objectives # << >>
         THEN drain_objectives(s, player_id)
    ELSE IF has_turn_state(s, player_id)
         THEN drain_turn_state(fresh_objectives(s, player_id), player_id)
    ELSE Returns(with_turn_queue(fresh_objectives(s, player_id), player_id),
                 player_id, NoMessage)

----------------------------------------------------------------------------
(* The client (py_client/cb2_client.py): Cb2Client and Game.                 *)
(* None is the empty sequence, a value v is << v >>.                         *)

\* What a call of the client returned, or the exception it raised.
Returned(ok, reason) == [ok |-> ok, reason |-> reason, raised |-> "NONE"]

Raised(exception, reason) == [ok |-> FALSE, reason |-> reason, raised |-> exception]

\* Cb2Client after Reset. state_sync, map_update, prop_update and turn_state
\* are the locals of _wait_for_game; sent is what went out on the socket,
\* result what the last call returned, call the blocking call in progress.
\* seen, ticks and pings are history: the kinds of frame read while joining,
\* the ticks read since the last step sent, the PINGs read, and held, the
\* game as it was when step was last called.
Cb2ClientBegin ==
    [init_state |-> "BEGIN", closed |-> FALSE, state_sync |-> << >>, map_update |-> << >>,
     prop_update |-> << >>, turn_state |-> << >>, game |-> << >>, sent |-> << >>,
     result |-> Returned(TRUE, ""), call |-> "none", seen |-> {}, ticks |-> 0, pings |-> 0,
     held |-> << >>]

Connect(c) ==
    IF c.init_state # "BEGIN"
    THEN [c EXCEPT !.result =
            Returned(FALSE, "Server is not in the BEGIN state. Call Reset() first?")]
    ELSE [c EXCEPT !.init_state = "CONNECTED", !.closed = FALSE, !.result = Returned(TRUE, "")]

\* _send_message, once for each of the messages.
send_messages(c, messages) ==
    IF c.closed THEN c ELSE [c EXCEPT !.sent = @ \o messages]

QueueTypes == {"DEFAULT", "LEADER_ONLY", "FOLLOWER_ONLY"}

join_queue(c, queue_type) ==
    IF c.init_state \notin {"CONNECTED", "GAME_OVER"}
    THEN [c EXCEPT !.result = Returned(FALSE, "Not ready to join game")]
    ELSE IF queue_type \notin QueueTypes
    THEN [c EXCEPT !.result = Returned(FALSE, "Invalid queue type")]
    ELSE [send_messages(c, << [type |-> "JOIN_QUEUE", queue_type |-> queue_type] >>)
            EXCEPT !.init_state = "IN_QUEUE", !.result = Returned(TRUE, "")]

\* _wait_for_game up to its loop (lines 438-445).
wait_for_game_begin(c) ==
    IF c.init_state # "IN_QUEUE"
    THEN [c EXCEPT !.result = Returned(FALSE, "Not in queue, yet waiting for game.")]
    ELSE [c EXCEPT !.state_sync = << >>, !.map_update = << >>, !.prop_update = << >>,
                   !.turn_state = << >>, !.call = "wait_for_game", !.seen = {}]

\* The loop of _wait_for_game finds its time is up (lines 447-448).
wait_for_game_timeout(c) ==
    [c EXCEPT !.result = Returned(FALSE, "Timed out waiting for game"), !.call = "none"]

\* The loop of _wait_for_game reads CLOSED from the socket (lines 455-457).
wait_for_game_closed(c) ==
    [c EXCEPT !.closed = TRUE, !.result = Returned(FALSE, "Socket closed."), !.call = "none"]

JoinResponse(joined, booted_from_queue) ==
    [type |-> "ROOM_MANAGEMENT",
     join_response |-> [joined |-> joined, booted_from_queue |-> booted_from_queue]]

PropUpdate == [type |-> "PROP_UPDATE", prop_update |-> "props"]

\* Game._initialize. State.state builds the StateSync without a role
\* (state.py 483); the field then holds the message's default.
initialize(state_sync, map, props, ts) ==
    [map_update |-> map,
     prop_update |-> props,
     player_id |-> state_sync.player_id,
     player_role |-> IF "player_role" \in DOMAIN state_sync THEN state_sync.player_role
                     ELSE NONE,
     actor |-> << >>,
     actors |-> [id \in {state_sync.actors[i].actor_id : i \in DOMAIN state_sync.actors} |->
                    LET net_actor == state_sync.actors[
                            CHOOSE i \in DOMAIN state_sync.actors :
                                state_sync.actors[i].actor_id = id]
                    IN  [location |-> net_actor.location,
                         rotation_degrees |-> net_actor.rotation_degrees,
                         actions |-> << >>]],
     turn_state |-> ts,
     objectives |-> << >>,
     queued_messages |-> << >>,
     error |-> "NONE"]

\* One text frame in the loop of _wait_for_game (lines 461-486).
wait_for_game(c, message) ==
    LET answered == c.init_state = "IN_QUEUE" /\ message.type = "ROOM_MANAGEMENT"
        c0 == IF answered /\ message.join_response.joined
              THEN [c EXCEPT !.init_state = "IN_GAME_INIT"] ELSE c
        c1 == IF c0.init_state # "IN_GAME_INIT" THEN c0
              ELSE IF message.type = "STATE_SYNC"
                   THEN [c0 EXCEPT !.state_sync = << message.state >>]
              ELSE IF message.type = "MAP_UPDATE"
                   THEN [c0 EXCEPT !.map_update = << message.map_update >>]
              ELSE IF message.type = "PROP_UPDATE"
                   THEN [c0 EXCEPT !.prop_update = << message.prop_update >>]
              ELSE IF message.type = "GAME_STATE"
                   THEN [c0 EXCEPT !.turn_state = << message.turn_state >>]
              ELSE c0
    IN  IF answered /\ message.join_response.booted_from_queue
        THEN [c0 EXCEPT !.init_state = "CONNECTED",
                        !.result = Returned(FALSE, "Booted from queue"), !.call = "none"]
        ELSE IF /\ c1.init_state = "IN_GAME_INIT"
                /\ c1.state_sync # << >> /\ c1.map_update # << >>
                /\ c1.prop_update # << >> /\ c1.turn_state # << >>
        THEN [c1 EXCEPT !.init_state = "GAME_STARTED",
                        !.game = << initialize(c1.state_sync[1], c1.map_update[1],
                                               c1.prop_update[1], c1.turn_state[1]) >>,
                        !.result = Returned(TRUE, ""), !.call = "none"]
        ELSE c1

\* The client of a player the room admits: connected, queued, told that it
\* joined, and sent the props by its session; of the room it has nothing yet.
NewClient ==
    wait_for_game(
        wait_for_game(
            wait_for_game_begin(join_queue(Connect(Cb2ClientBegin), "DEFAULT")),
            JoinResponse(TRUE, FALSE)),
        PropUpdate)

\* Game._handle_state_sync: line 267 reads self.state_sync, which Game does not
\* have, so the handler raises AttributeError before it changes anything.
handle_state_sync(g, state_sync) == [g EXCEPT !.error = "AttributeError"]

RECURSIVE enqueue_actions(_, _)
enqueue_actions(g, actions) ==
    IF actions = << >> THEN g
    ELSE LET action == Head(actions)
         IN  enqueue_actions(
                IF action.id = g.player_id \/ action.id \notin DOMAIN g.actors THEN g
                ELSE [g EXCEPT !.actors[action.id].actions = Append(@, action)],
                Tail(actions))

\* Game._handle_message.
handle_message(g, message) ==
    IF message.type = "ACTIONS" THEN enqueue_actions(g, message.actions)
    ELSE IF message.type = "STATE_SYNC" THEN handle_state_sync(g, message.state)
    ELSE IF message.type = "GAME_STATE" THEN [g EXCEPT !.turn_state = message.turn_state]
    ELSE IF message.type = "MAP_UPDATE" THEN [g EXCEPT !.map_update = message.map_update]
    ELSE IF message.type = "OBJECTIVE" THEN [g EXCEPT !.objectives = message.objectives]
    ELSE IF message.type = "PING"
         THEN [g EXCEPT !.queued_messages = Append(@, [type |-> "PONG"])]
    ELSE g

\* The client reads one frame: in _wait_for_game while joining, in
\* _wait_for_tick once the game has started.
receive(c, message) ==
    IF message.type = "NONE" THEN c
    ELSE IF c.init_state = "IN_GAME_INIT" THEN wait_for_game(c, message)
    ELSE [c EXCEPT !.game = << handle_message(c.game[1], message) >>]

\* The actions of the client API: the class and the action code.
LeadAction(code) == [class |-> "LeadAction", code |-> code]

FollowAction(code) == [class |-> "FollowAction", code |-> code]

LeadFeedbackAction(code) == [class |-> "LeadFeedbackAction", code |-> code]

MovementCodes == {"FORWARDS", "BACKWARDS", "TURN_LEFT", "TURN_RIGHT"}

\* A variant: the role of the player is checked, the turn is not.
step_refusal_by_role(g, action) ==
    IF action.class = "FollowAction" /\ g.player_role # FOLLOWER
    THEN "Not a follower, cannot send follow action"
    ELSE IF action.class = "LeadAction" /\ g.player_role # LEADER
    THEN "Not a leader, cannot send lead action"
    ELSE IF action.class = "LeadFeedbackAction" /\ g.player_role # LEADER
    THEN "Not a leader, cannot send lead feedback action"
    ELSE ""

\* The checks at the head of Game.step (lines 198-212): the reason of the
\* ValueError, or nothing.
step_refusal(g, action) ==
    IF action.class = "FollowAction" /\ g.player_role # FOLLOWER
    THEN "Not a follower, cannot send follow action"
    ELSE IF action.class = "FollowAction" /\ g.turn_state.turn # FOLLOWER
    THEN "Not your turn, cannot send follow action"
    ELSE IF action.class = "LeadAction" /\ g.player_role # LEADER
    THEN "Not a leader, cannot send lead action"
    ELSE IF action.class = "LeadAction" /\ g.turn_state.turn # LEADER
    THEN "Not your turn, cannot send lead action"
    ELSE IF action.class = "LeadFeedbackAction" /\ g.player_role # LEADER
    THEN "Not a leader, cannot send lead feedback action"
    ELSE IF action.class = "LeadFeedbackAction" /\ g.turn_state.turn # FOLLOWER
    THEN "Not follower turn, cannot send lead feedback action"
    ELSE ""

\* message_to_server of the three action classes: the messages to send (none
\* for a code without a message), or the exception. A movement is built by
\* the game's actor, which Game never sets: self.actor is None (line 167).
message_to_server(g, action) ==
    IF action.code \in MovementCodes /\ action.class # "LeadFeedbackAction"
    THEN IF g.actor = << >>
         THEN [messages |-> << >>, raised |-> "AttributeError"]
         ELSE [messages |-> << [type |-> "ACTIONS", code |-> action.code] >>,
               raised |-> "NONE"]
    ELSE IF \/ action.class = "LeadAction"
               /\ action.code \in {"END_TURN", "INTERRUPT", "SEND_INSTRUCTION"}
            \/ action.class = "FollowAction" /\ action.code = "INSTRUCTION_DONE"
            \/ action.class = "LeadFeedbackAction"
               /\ action.code \in {"POSITIVE_FEEDBACK", "NEGATIVE_FEEDBACK"}
    THEN [messages |-> << [type |-> action.code] >>, raised |-> "NONE"]
    ELSE [messages |-> << >>, raised |-> "NONE"]

\* A variant: the leader's exemption given to every player.
can_act_whatever_the_turn(g) == g.player_role \in {LEADER, FOLLOWER}

can_act(g) == g.player_role = g.turn_state.turn \/ g.player_role = LEADER

\* Game.step up to its first wait (lines 198-217): the checks, the action's
\* message, the queued messages.
Game_step(c, action) ==
    LET g == c.game[1]
        refusal == step_refusal(g, action)
        out == message_to_server(g, action)
    IN  IF refusal # "" THEN [c EXCEPT !.result = Raised("ValueError", refusal)]
        ELSE IF out.raised # "NONE" THEN [c EXCEPT !.result = Raised(out.raised, "")]
        ELSE [send_messages(send_messages(c, out.messages), g.queued_messages)
                EXCEPT !.call = "step"]

\* One text frame in _wait_for_tick (lines 507-510), in the waits of Game.step
\* (lines 220-225): the step returns at a tick after which the player can act.
wait_for_tick(c, message) ==
    LET g == handle_message(c.game[1], message)
    IN  IF message.type = "STATE_SYNC" /\ g.error = "AttributeError"
        THEN [c EXCEPT !.game = << g >>, !.result = Raised("AttributeError", ""),
                       !.call = "none"]
        ELSE IF message.type = "STATE_MACHINE_TICK" /\ can_act(g)
        THEN [c EXCEPT !.game = << g >>, !.result = Returned(TRUE, ""), !.call = "none"]
        ELSE [c EXCEPT !.game = << g >>]

\* _wait_for_tick returns False (time is up, or the socket closed) and the
\* assert of Game.step fails (lines 221, 224).
wait_for_tick_failed(c, closed, reason) ==
    [c EXCEPT !.closed = @ \/ closed, !.result = Raised("AssertionError", reason),
              !.call = "none"]

----------------------------------------------------------------------------
(* The room together with its clients: the session's write loop drains a     *)
(* message for a player and that player's client reads it.                   *)

World(s, m) == [s |-> s, m |-> m]

drain_to(w, player_id) ==
    LET s == drain_message(w.s, player_id)
    IN  World(s, [w.m EXCEPT ![player_id] = receive(@, s.returned.message)])

\* The write loop calls drain until it returns nothing.
RECURSIVE drain_all(_, _)
drain_all(w, player_id) ==
    LET w1 == drain_to(w, player_id)
    IN  IF w1.s.returned.message.type = "NONE" THEN w1 ELSE drain_all(w1, player_id)

RECURSIVE drain_everyone(_, _)
drain_everyone(w, ids) ==
    IF ids = << >> THEN w ELSE drain_everyone(drain_all(w, Head(ids)), Tail(ids))

admit(w, role) ==
    World(create_actor(w.s, role), Put(w.m, alloc(w.s.id_assigner), NewClient))

----------------------------------------------------------------------------
(* The map the provider generated, and the room after State.__init__. *)

East == Hecs(0, 0, 1)
West == Hecs(0, 0, -1)
Far == Hecs(0, 0, 2)

\* Three cards that form a set east of the spawn point, and one to the west
\* that shares an attribute with each of them.
InitialCards ==
    (0 :> Card(Hecs(0, 0, 1), 1, 1, 1)) @@ (1 :> Card(Hecs(0, 0, 2), 2, 2, 2)) @@
    (2 :> Card(Hecs(0, 0, 3), 3, 3, 3)) @@ (3 :> Card(Hecs(0, 0, -1), 1, 2, 3))

SpawnPoints == << Hecs(0, 0, 0) >>

Draws == {1, 2}

InitialTurnState ==
    TurnUpdate(LEADER, LEADER_MOVES_PER_TURN, INITIAL_TURNS_LEFT,
               turn_duration(LEADER), 0, 0, 0)

\* State.__init__ at time 0.
FreshRoom ==
    [actors |-> EmptyDict, actor_order |-> << >>, id_assigner |-> DOMAIN InitialCards,
     spawn_points |-> SpawnPoints, cards |-> InitialCards, map_update |-> InitialCards,
     objectives |-> << >>, objectives_stale |-> EmptyDict, map_stale |-> EmptyDict,
     synced |-> EmptyDict, action_history |-> EmptyDict, turn_history |-> EmptyDict,
     turn_state |-> InitialTurnState, last_tick |-> 0, done |-> FALSE,
     current_set_invalid |-> FALSE,
     record_log |-> << [kind |-> "turn_state", turn_state |-> InitialTurnState] >>,
     returned |-> NoReturn]

\* The variables are the fields of room s and the clients m at time t, after
\* n inputs.
Load(w, t, n) ==
    /\ actors = w.s.actors
    /\ actor_order = w.s.actor_order
    /\ id_assigner = w.s.id_assigner
    /\ spawn_points = w.s.spawn_points
    /\ cards = w.s.cards
    /\ map_update = w.s.map_update
    /\ objectives = w.s.objectives
    /\ objectives_stale = w.s.objectives_stale
    /\ map_stale = w.s.map_stale
    /\ synced = w.s.synced
    /\ action_history = w.s.action_history
    /\ turn_history = w.s.turn_history
    /\ turn_state = w.s.turn_state
    /\ last_tick = w.s.last_tick
    /\ done = w.s.done
    /\ current_set_invalid = w.s.current_set_invalid
    /\ record_log = w.s.record_log
    /\ returned = w.s.returned
    /\ mirror = w.m
    /\ now = t
    /\ inputs = n

Init == Load(World(FreshRoom, EmptyDict), 0, 0)

----------------------------------------------------------------------------
(* What the clients, the sessions, the tick loop and the clock do. *)

\* The actions a client proposes for actor id.
ActionInputs(id) ==
    { Walk(id, East), Walk(id, West), Walk(id, Far), Turn(id, 60) }

ClockMax == MaxClock * ClockStep

\* The queues stay within the bounds of the model.
WithinBounds(s) ==
    /\ \A id \in DOMAIN s.turn_history : Len(s.turn_history[id]) <= MaxTurnQueue
    /\ \A id \in DOMAIN s.action_history : Len(s.action_history[id]) <= MaxOutbox
    /\ \A id \in DOMAIN s.actors : Len(s.actors[id].actions) <= MaxPending
    /\ Len(s.objectives) <= MaxObjectives
    /\ s.turn_state.turns_left >= -1 - MaxOverrun

\* The room admits one actor per role.
CreateActor(role) ==
    /\ inputs < MaxInputs
    /\ \A id \in DOMAIN actors : actors[id].role # role
    /\ LET w == admit(World(Room, mirror), role)
       IN  Becomes(w.s) /\ mirror' = w.m
    /\ inputs' = inputs + 1
    /\ UNCHANGED now

\* The transport of actor_id's session closes.
FreeActor(actor_id) ==
    /\ inputs < MaxInputs
    /\ actor_id \in DOMAIN actors
    /\ Becomes(free_actor(Room, actor_id))
    /\ mirror' = Del(mirror, actor_id)
    /\ inputs' = inputs + 1
    /\ UNCHANGED now

\* The session of actor id hands one message to handle_packet.
Packet(id, message) ==
    /\ inputs < MaxInputs
    /\ id \in DOMAIN actors
    /\ LET s == handle_packet(Room, id, message, now)
       IN  WithinBounds(s) /\ Becomes(s)
    /\ inputs' = inputs + 1
    /\ UNCHANGED << now, mirror >>

ActionsPacket(id) ==
    /\ \E action \in ActionInputs(id) :
            Packet(id, [type |-> "ACTIONS", actions |-> << action >>])
    /\ TRUE

ObjectivePacket(id) ==
    /\ Packet(id, [type |-> "OBJECTIVE", objective |-> [text |-> "go"]])
    /\ TRUE

ObjectiveCompletedPacket(id) ==
    /\ \E uuid \in 1..MaxObjectives :
            Packet(id, [type |-> "OBJECTIVE_COMPLETED",
                        objective_complete |-> [uuid |-> uuid]])
    /\ TRUE

TurnCompletePacket(id) ==
    /\ Packet(id, [type |-> "TURN_COMPLETE"])
    /\ TRUE

StateSyncRequestPacket(id) ==
    /\ Packet(id, [type |-> "STATE_SYNC_REQUEST"])
    /\ TRUE

\* One iteration of the tick loop; the clock may move on while it runs.
Update ==
    /\ ~done
    /\ \E t2 \in {now, now + ClockStep}, draw \in Draws :
        /\ t2 <= ClockMax
        /\ LET s == update(Room, now, t2, draw)
           IN  WithinBounds(s) /\ Becomes(s)
        /\ now' = t2
    /\ UNCHANGED << inputs, mirror >>

\* The session's write loop drains one message for player_id and the client reads it.
DrainMessage(player_id) ==
    /\ player_id \in DOMAIN actors
    /\ LET w == drain_to(World(Room, mirror), player_id)
       IN  Becomes(w.s) /\ mirror' = w.m
    /\ UNCHANGED << now, inputs >>

\* Time passes and no handler runs.
AdvanceClock ==
    /\ now + ClockStep <= ClockMax
    /\ now' = now + ClockStep
    /\ Becomes(Room)
    /\ UNCHANGED << inputs, mirror >>

Ids == 0..(Cardinality(DOMAIN InitialCards) + 1)

----------------------------------------------------------------------------
(* Rooms in mid-game: each is the fresh room after a fixed run of the        *)
(* handlers above, with every client drained (and the log dropped).          *)

actor_of(s, role) == CHOOSE id \in DOMAIN s.actors : s.actors[id].role = role

settle(w) == drain_everyone(w, w.s.actor_order)

quiet(w) == [w EXCEPT !.s.record_log = << >>, !.s.returned = NoReturn]

tick_at(w, t) == World(update(w.s, t, t, 1), w.m)

send(w, id, message, t) == World(handle_packet(w.s, id, message, t), w.m)

\* Both players admitted, one tick at time t, every message drained.
Running(t) ==
    settle(tick_at(admit(admit(World(FreshRoom, EmptyDict), LEADER), FOLLOWER), t))

\* n times, or until the game is over: the owner of the turn sends
\* TURN_COMPLETE.
RECURSIVE end_turns(_, _, _)
end_turns(w, n, t) ==
    IF n = 0 \/ w.s.done THEN w
    ELSE end_turns(
            settle(send(w, actor_of(w.s, w.s.turn_state.turn), [type |-> "TURN_COMPLETE"], t)),
            n - 1, t)

\* The leader proposes one action and a tick handles it.
leader_act(w, action, t) ==
    settle(tick_at(send(w, action.id, [type |-> "ACTIONS", actions |-> << action >>], t), t))

\* n times, or until the game is over: the leader walks by displacement.
RECURSIVE leader_walks(_, _, _, _)
leader_walks(w, n, displacement, t) ==
    IF n = 0 \/ w.s.done THEN w
    ELSE leader_walks(leader_act(w, Walk(actor_of(w.s, LEADER), displacement), t),
                      n - 1, displacement, t)

\* n times, or until the game is over: the leader walks over three cards, a
\* set, and both players end their turns.
RECURSIVE sets_played(_, _, _)
sets_played(w, n, t) ==
    IF n = 0 \/ w.s.done THEN w
    ELSE sets_played(end_turns(leader_walks(w, 3, East, t), 2, t), n - 1, t)

\* Both players admitted, the six turns of the game ended in the first
\* second, then one tick at time t: the last turn, which ends at 60 seconds.
LastTurn(t) ==
    settle(tick_at(end_turns(admit(admit(World(FreshRoom, EmptyDict), LEADER), FOLLOWER),
                             INITIAL_TURNS_LEFT, 0),
                   t))

\* Both players admitted, one tick at time t, the leader has sent an
\* objective, every message drained.
Briefed(t) ==
    LET w == Running(t)
    IN  settle(send(w, actor_of(w.s, LEADER),
                    [type |-> "OBJECTIVE", objective |-> [text |-> "go"]], t))

\* A game that has just started, one whose leader has sent an objective, one
\* in its last turn, and one whose leader has walked west until one move is
\* left.
InitGame ==
    \/ Load(quiet(Running(ClockStep)), ClockStep, MaxInputs - MaxGameInputs)
    \/ Load(quiet(Briefed(ClockStep)), ClockStep, MaxInputs - MaxGameInputs)
    \/ Load(quiet(LastTurn(ClockStep)), ClockStep, MaxInputs - MaxGameInputs)
    \/ Load(quiet(leader_walks(Running(ClockStep), LEADER_MOVES_PER_TURN - 1, West, ClockStep)),
            ClockStep, MaxInputs - MaxGameInputs)

NextGame ==
    \/ \E id \in Ids : ActionsPacket(id)
    \/ \E id \in Ids : ObjectivePacket(id)
    \/ \E id \in Ids : ObjectiveCompletedPacket(id)
    \/ \E id \in Ids : TurnCompletePacket(id)
    \/ \E id \in Ids : StateSyncRequestPacket(id)
    \/ Update
    \/ \E id \in Ids : DrainMessage(id)
    \/ AdvanceClock

SpecGame == InitGame /\ [][NextGame]_vars

\* A game in which 0 to MaxSets sets have been collected and the leader has
\* walked over two cards of the next.
InitSets ==
    \E n \in 0..MaxSets :
        Load(quiet(leader_walks(sets_played(Running(ClockStep), n, ClockStep), 2, East, ClockStep)),
             ClockStep, MaxInputs - MaxGameInputs)

NextSets ==
    \/ \E id \in Ids : ActionsPacket(id)
    \/ Update
    \/ \E id \in Ids : DrainMessage(id)

SpecSets == InitSets /\ [][NextSets]_vars

\* The actions of every type a client may put in a frame for actor id: turns
\* within and beyond sixty degrees either way, a turn that carries a
\* displacement, and the types the server itself sends.
AnyActionInputs(id) ==
    { Walk(id, East), Turn(id, 60), Turn(id, -60), Turn(id, 90), Turn(id, -90),
      Action(id, ROTATE, East, 60, 0, NOCOLOR),
      Action(id, INIT, East, 0, 0, NOCOLOR),
      Action(id, INSTANT, Hecs(0, 0, 0), 60, 0, NOCOLOR),
      Action(id, OUTLINE, Hecs(0, 0, 0), 0, 1, RED),
      Action(id, DEATH, Hecs(0, 0, 0), 0, 0, NOCOLOR) }

AnyActionsPacket(id) ==
    /\ \E action \in AnyActionInputs(id) :
            Packet(id, [type |-> "ACTIONS", actions |-> << action >>])
    /\ TRUE

\* A game that has just started, whose clients send actions of every type.
InitMoves == Load(quiet(Running(ClockStep)), ClockStep, MaxInputs - MaxGameInputs)

NextMoves ==
    \/ \E id \in Ids : AnyActionsPacket(id)
    \/ Update
    \/ \E id \in Ids : DrainMessage(id)

SpecMoves == InitMoves /\ [][NextMoves]_vars

\* A game that has just started, whose players leave and join again while
\* the tick loop runs.
InitCast == Load(quiet(Running(ClockStep)), ClockStep, 0)

NextCast ==
    \/ \E role \in Roles : CreateActor(role)
    \/ \E id \in Ids : FreeActor(id)
    \/ \E id \in Ids : StateSyncRequestPacket(id)
    \/ Update
    \/ \E id \in Ids : DrainMessage(id)

SpecCast == InitCast /\ [][NextCast]_vars

\* The follower was admitted first and the leader second; the follower's
\* transport closed and a new follower was admitted, who took the freed id.
\* One tick at time t, every message drained.
Readmitted(t) ==
    LET w == admit(admit(World(FreshRoom, EmptyDict), FOLLOWER), LEADER)
        gone == actor_of(w.s, FOLLOWER)
    IN  settle(tick_at(admit(World(free_actor(w.s, gone), Del(w.m, gone)), FOLLOWER), t))

\* Two players who propose actions in a game that has just started, with the
\* ids in the order of admission and with a reused id.
InitOrder ==
    \/ Load(quiet(Running(ClockStep)), ClockStep, 0)
    \/ Load(quiet(Readmitted(ClockStep)), ClockStep, 0)

\* A client proposes a step forwards.
ForwardPacket(id) ==
    /\ Packet(id, [type |-> "ACTIONS", actions |-> << Walk(id, East) >>])
    /\ TRUE

NextOrder ==
    \/ \E id \in Ids : ForwardPacket(id)
    \/ Update
    \/ \E id \in Ids : DrainMessage(id)

SpecOrder == InitOrder /\ [][NextOrder]_vars

\* The player of the role proposes the steps one after the other, a tick
\* handling each.
RECURSIVE paces(_, _, _, _)
paces(w, role, steps, t) ==
    IF steps = << >> \/ w.s.done THEN w
    ELSE paces(leader_act(w, Walk(actor_of(w.s, role), Head(steps)), t),
               role, Tail(steps), t)

\* The leader's turn: just begun; with every move taken; with the card to the
\* east selected and the leader back at the spawn point; and with the cards
\* to the east and to the west selected, which collide, and the leader back
\* at the spawn point with one move left.
InitTurn ==
    \/ Load(quiet(Running(ClockStep)), ClockStep, MaxInputs - MaxGameInputs)
    \/ Load(quiet(leader_walks(Running(ClockStep), LEADER_MOVES_PER_TURN, West, ClockStep)),
            ClockStep, MaxInputs - MaxGameInputs)
    \/ Load(quiet(paces(Running(ClockStep), LEADER, << East, West >>, ClockStep)),
            ClockStep, MaxInputs - MaxGameInputs)
    \/ Load(quiet(paces(Running(ClockStep), LEADER, << East, West, West, East >>, ClockStep)),
            ClockStep, MaxInputs - MaxGameInputs)

NextTurn ==
    \/ \E id \in Ids : ActionsPacket(id)
    \/ \E id \in Ids : TurnCompletePacket(id)
    \/ Update
    \/ \E id \in Ids : DrainMessage(id)

SpecTurn == InitTurn /\ [][NextTurn]_vars

\* A client proposes a step to the west.
WestPacket(id) ==
    /\ Packet(id, [type |-> "ACTIONS", actions |-> << Walk(id, West) >>])
    /\ TRUE

\* The leader's first turn with one move left, and the follower's first turn,
\* which began when the leader's time ran out, with one move left; every
\* move was a step to the west.
InitQuota ==
    \/ Load(quiet(paces(Running(ClockStep), LEADER,
                        [i \in 1..(LEADER_MOVES_PER_TURN - 1) |-> West], ClockStep)),
            ClockStep, 0)
    \/ Load(quiet(paces(settle(tick_at(Running(ClockStep), 2 * ClockStep)), FOLLOWER,
                        [i \in 1..(FOLLOWER_MOVES_PER_TURN - 1) |-> West], 2 * ClockStep)),
            2 * ClockStep, 0)

NextQuota ==
    \/ \E id \in Ids : WestPacket(id)
    \/ Update
    \/ \E id \in Ids : DrainMessage(id)

SpecQuota == InitQuota /\ [][NextQuota]_vars

\* The session of actor id hands over a step forwards that names actor other.
NamingPacket(id, other) ==
    /\ Packet(id, [type |-> "ACTIONS", actions |-> << Walk(other, East) >>])
    /\ TRUE

\* A game that has just started, whose clients send actions under any id.
InitNames == Load(quiet(Running(ClockStep)), ClockStep, 0)

NextNames ==
    \/ \E id \in Ids, other \in Ids : NamingPacket(id, other)
    \/ Update
    \/ \E id \in Ids : DrainMessage(id)

SpecNames == InitNames /\ [][NextNames]_vars

----------------------------------------------------------------------------
(* One client on its socket: what it reads is what a server may send, built  *)
(* from the room above. The client is mirror[1]; the room stays as it is.    *)

StateSyncFrame(role) ==
    LET s == Running(ClockStep).s
    IN  [type |-> "STATE_SYNC",
         state |-> [player_role |-> role] @@ state(s, actor_of(s, role))]

MapUpdateFrame == [type |-> "MAP_UPDATE", map_update |-> FreshRoom.map_update]

GameStateFrame(turn) ==
    [type |-> "GAME_STATE", turn_state |-> [InitialTurnState EXCEPT !.turn = turn]]

JoinFrames ==
    { JoinResponse(TRUE, FALSE), JoinResponse(FALSE, FALSE), JoinResponse(FALSE, TRUE),
      StateSyncFrame(LEADER), MapUpdateFrame, PropUpdate, GameStateFrame(LEADER) }

\* The client moves on; the room and the clock do not.
ClientBecomes(c) ==
    /\ mirror' = << c >>
    /\ Becomes(Room)
    /\ UNCHANGED now

\* _join_queue.
JoinQueue(queue_type) ==
    /\ mirror[1].call = "none"
    /\ ClientBecomes(join_queue(mirror[1], queue_type))
    /\ UNCHANGED inputs

\* _wait_for_game is called.
WaitForGame ==
    /\ mirror[1].call = "none"
    /\ ClientBecomes(wait_for_game_begin(mirror[1]))
    /\ UNCHANGED inputs

\* What a frame tells a joining client: that it joined, or the frame's type.
JoinKind(message) ==
    IF message.type # "ROOM_MANAGEMENT" THEN {message.type}
    ELSE IF message.join_response.joined THEN {"JOINED"} ELSE {}

\* _wait_for_game reads a frame.
JoinFrame(message) ==
    /\ mirror[1].call = "wait_for_game"
    /\ inputs < MaxFrames
    /\ ClientBecomes([wait_for_game(mirror[1], message) EXCEPT
                        !.seen = mirror[1].seen \cup JoinKind(message)])
    /\ inputs' = inputs + 1

JoinTimeout ==
    /\ mirror[1].call = "wait_for_game"
    /\ inputs < MaxFrames
    /\ ClientBecomes(wait_for_game_timeout(mirror[1]))
    /\ inputs' = inputs + 1

JoinClosed ==
    /\ mirror[1].call = "wait_for_game"
    /\ inputs < MaxFrames
    /\ ClientBecomes(wait_for_game_closed(mirror[1]))
    /\ inputs' = inputs + 1

\* A connected client that joins, and joins again after a failure.
InitJoin == Load(World(FreshRoom, << Connect(Cb2ClientBegin) >>), 0, 0)

NextJoin ==
    \/ \E queue_type \in QueueTypes \cup {"NONE"} : JoinQueue(queue_type)
    \/ WaitForGame
    \/ \E message \in JoinFrames : JoinFrame(message)
    \/ JoinTimeout
    \/ JoinClosed

SpecJoin == InitJoin /\ [][NextJoin]_vars

\* The client of a player with the given role whose game has started, in the
\* given turn.
Started(role, turn) ==
    wait_for_game(
        wait_for_game(
            wait_for_game(NewClient, StateSyncFrame(role)),
            MapUpdateFrame),
        GameStateFrame(turn))

ClientActions ==
    { LeadAction("END_TURN"), LeadAction("SEND_INSTRUCTION"), LeadAction("FORWARDS"),
      FollowAction("INSTRUCTION_DONE"), FollowAction("FORWARDS"),
      LeadFeedbackAction("POSITIVE_FEEDBACK") }

TickFrames ==
    { [type |-> "STATE_MACHINE_TICK"], [type |-> "PING"],
      GameStateFrame(LEADER), GameStateFrame(FOLLOWER), StateSyncFrame(LEADER) }

\* The agent calls Game.step.
Step(action) ==
    /\ mirror[1].call = "none"
    /\ mirror[1].init_state = "GAME_STARTED"
    /\ ClientBecomes([Game_step(mirror[1], action) EXCEPT
                        !.ticks = 0, !.held = mirror[1].game])
    /\ UNCHANGED inputs

\* A wait of the step reads a frame.
TickFrame(message) ==
    /\ mirror[1].call = "step"
    /\ inputs < MaxFrames
    /\ ClientBecomes([wait_for_tick(mirror[1], message) EXCEPT
                        !.ticks = @ + (IF message.type = "STATE_MACHINE_TICK" THEN 1 ELSE 0),
                        !.pings = @ + (IF message.type = "PING" THEN 1 ELSE 0)])
    /\ inputs' = inputs + 1

\* A wait of the step finds its time is up, or the socket closed.
TickFailed ==
    /\ mirror[1].call = "step"
    /\ inputs < MaxFrames
    /\ \/ ClientBecomes(wait_for_tick_failed(mirror[1], FALSE, "Timed out waiting for tick"))
       \/ ClientBecomes(wait_for_tick_failed(mirror[1], TRUE, "Socket closed."))
    /\ inputs' = inputs + 1

\* A leader's and a follower's client in a started game, in either turn.
InitPlay ==
    \E role \in Roles, turn \in Roles :
        Load(World(FreshRoom, << Started(role, turn) >>), 0, 0)

NextPlay ==
    \/ \E action \in ClientActions : Step(action)
    \/ \E message \in TickFrames : TickFrame(message)
    \/ TickFailed

SpecPlay == InitPlay /\ [][NextPlay]_vars

Next ==
    \/ \E role \in Roles : CreateActor(role)
    \/ \E id \in Ids : FreeActor(id)
    \/ \E id \in Ids : ActionsPacket(id)
    \/ \E id \in Ids : ObjectivePacket(id)
    \/ \E id \in Ids : ObjectiveCompletedPacket(id)
    \/ \E id \in Ids : TurnCompletePacket(id)
    \/ \E id \in Ids : StateSyncRequestPacket(id)
    \/ Update
    \/ \E id \in Ids : DrainMessage(id)
    \/ AdvanceClock

Spec == Init /\ [][Next]_vars

\* A player was admitted, drained every message and left.
Departed ==
    LET w == settle(admit(World(FreshRoom, EmptyDict), LEADER))
        gone == actor_of(w.s, LEADER)
    IN  World(free_actor(w.s, gone), Del(w.m, gone))

\* A fresh room, and a room whose first player has come and gone.
InitLive ==
    \/ Load(World(FreshRoom, EmptyDict), 0, 0)
    \/ Load(quiet(Departed), 0, 0)

\* Players come and go; the tick loop keeps running, every session keeps
\* calling drain, and time passes.
NextLive ==
    \/ \E role \in Roles : CreateActor(role)
    \/ \E id \in Ids : FreeActor(id)
    \/ Update
    \/ \E id \in Ids : DrainMessage(id)
    \/ AdvanceClock

\* An iteration of the tick loop would change something: Update is enabled.
TickPending ==
    /\ ~done
    /\ \E t2 \in {now, now + ClockStep}, draw \in Draws :
        /\ t2 <= ClockMax
        /\ LET s == update(Room, now, t2, draw)
           IN  /\ WithinBounds(s)
               /\ \/ t2 # now
                  \/ s # [Room EXCEPT !.record_log = record_log, !.returned = returned]

\* A drain for player_id would change something: DrainMessage is enabled.
DrainPending(player_id) ==
    /\ player_id \in DOMAIN actors
    /\ LET w == drain_to(World(Room, mirror), player_id)
       IN  \/ w.s # [Room EXCEPT !.record_log = record_log, !.returned = returned]
           \/ w.m # mirror

\* Weak fairness of the clock, of the tick loop and of every session's write
\* loop; for the last two, WF_vars(A) is written out as
\* []<>~ENABLED <<A>>_vars \/ []<><<A>>_vars with the enabling condition above.
SpecLive ==
    /\ InitLive
    /\ [][NextLive]_vars
    /\ WF_vars(AdvanceClock)
    /\ ([]<>~TickPending \/ []<><<Update>>_vars)
    /\ \A id \in Ids : ([]<>~DrainPending(id) \/ []<><<DrainMessage(id)>>_vars)

\* The last turn of a game: the owner of the turn may end it, a player may
\* leave, the turn's time runs out.
InitEnd == Load(quiet(LastTurn(ClockStep)), ClockStep, 0)

NextEnd ==
    \/ \E id \in Ids : TurnCompletePacket(id)
    \/ \E id \in Ids : FreeActor(id)
    \/ Update
    \/ \E id \in Ids : DrainMessage(id)
    \/ AdvanceClock

\* Weak fairness of the clock, of the tick loop and of every session's write
\* loop, written out as in SpecLive.
SpecEnd ==
    /\ InitEnd
    /\ [][NextEnd]_vars
    /\ WF_vars(AdvanceClock)
    /\ ([]<>~TickPending \/ []<><<Update>>_vars)
    /\ \A id \in Ids : ([]<>~DrainPending(id) \/ []<><<DrainMessage(id)>>_vars)

----------------------------------------------------------------------------
(* Draining. returned is what the last step's drain_message call returned,   *)
(* and to whom; every other step leaves returned.to = -1.                    *)

\* The kind of message a drain for p is due to return: the first of map,
\* state sync, actions, objectives (the list stale for p) and turn state that
\* is pending.
DueAsStated(p) ==
    IF p \notin DOMAIN map_stale \/ map_stale[p] THEN "MAP_UPDATE"
    ELSE IF ~synced[p] THEN "STATE_SYNC"
    ELSE IF action_history[p] # << >> THEN "ACTIONS"
    ELSE IF p \notin DOMAIN objectives_stale \/ objectives_stale[p] THEN "OBJECTIVE"
    ELSE IF p \in DOMAIN turn_history /\ turn_history[p] # << >> THEN "GAME_STATE"
    ELSE "NONE"

\* The same, with objectives pending only when the list is not empty.
Due(p) ==
    IF p \notin DOMAIN map_stale \/ map_stale[p] THEN "MAP_UPDATE"
    ELSE IF ~synced[p] THEN "STATE_SYNC"
    ELSE IF action_history[p] # << >> THEN "ACTIONS"
    ELSE IF (p \notin DOMAIN objectives_stale \/ objectives_stale[p]) /\ objectives # << >>
         THEN "OBJECTIVE"
    ELSE IF p \in DOMAIN turn_history /\ turn_history[p] # << >> THEN "GAME_STATE"
    ELSE "NONE"

\* C1 as stated: every drain_message(p) returns the first pending kind in the
\* order MapUpdate, StateSync, Actions, Objectives (whenever objectives_stale
\* holds for p), head TurnState, nothing.
C1_DrainPriorityAsStated ==
    [][\A p \in Ids : returned'.to = p => returned'.message.type = DueAsStated(p)]_vars

\* C1: every drain_message(p) returns exactly one message, the first pending
\* kind in the order MapUpdate, StateSync, Actions (the whole outbox),
\* Objectives (objectives_stale for p and the list not empty), head TurnState,
\* or nothing; a lower kind is never returned while a higher one is pending.
C1_DrainPriority ==
    [][\A p \in Ids :
          returned'.to = p =>
            /\ returned'.message.type = Due(p)
            /\ Due(p) = "MAP_UPDATE" => returned'.message.map_update = map_update
            /\ Due(p) = "ACTIONS" => returned'.message.actions = action_history[p]
            /\ Due(p) = "OBJECTIVE" => returned'.message.objectives = objectives
            /\ Due(p) = "GAME_STATE" => returned'.message.turn_state = Head(turn_history[p])
      ]_vars

\* A drain returned a turn state, the lowest kind, the objectives list empty.
C1_Witness ==
    /\ returned.to \in DOMAIN actors
    /\ returned.message.type = "GAME_STATE"
    /\ objectives = << >>

\* C2: while synced[p] is false a drain for p returns only a MapUpdate or the
\* StateSync, never Actions, Objectives or a TurnState; the drain that returns
\* the StateSync sets synced[p], and nothing else does; a STATE_SYNC_REQUEST
\* from p and every change of cast clear it.
C2_StateSyncBeforeDeltas ==
    [][\A p \in Ids :
          /\ (returned'.to = p /\ ~synced[p]) =>
                /\ returned'.message.type \in {"MAP_UPDATE", "STATE_SYNC"}
                /\ returned'.message.type = "STATE_SYNC" => synced'[p]
          /\ (p \in DOMAIN synced /\ ~synced[p] /\ synced'[p]) =>
                /\ returned'.to = p
                /\ returned'.message.type = "STATE_SYNC"
          /\ StateSyncRequestPacket(p) => ~synced'[p]
          /\ (DOMAIN actors' # DOMAIN actors /\ p \in DOMAIN actors') => ~synced'[p]
      ]_vars

\* The StateSync went to an actor whose outbox holds actions.
C2_Witness ==
    /\ returned.to \in DOMAIN actors
    /\ returned.message.type = "STATE_SYNC"
    /\ action_history[returned.to] # << >>
    /\ synced[returned.to]

\* C3: when a StateSync has been drained for p and p's started mirror has
\* applied it, every actor the mirror holds is at the server's location.
C3_MirrorAtServerLocations ==
    \A p \in DOMAIN actors :
        (/\ returned.to = p
         /\ returned.message.type = "STATE_SYNC"
         /\ mirror[p].init_state = "GAME_STARTED") =>
            \A a \in DOMAIN actors \cap DOMAIN mirror[p].game[1].actors :
                mirror[p].game[1].actors[a].location = actors[a].location

\* The actions a handler recorded, in the order it recorded them.
RECURSIVE Recorded(_)
Recorded(log) ==
    IF log = << >> THEN << >>
    ELSE IF Head(log).kind = "action" THEN << Head(log).action >> \o Recorded(Tail(log))
    ELSE Recorded(Tail(log))

\* C4: each outbox is a FIFO of the recorded actions: a step appends to the
\* outbox of every admitted actor p the actions it recorded, in commit order,
\* and nothing else; the drain that returns Actions returns the whole outbox
\* in that order and empties it, so no action is delivered twice; a started
\* mirror queues the batch's actions of every other actor it holds, in order.
C4_OutboxFifo ==
    [][\A p \in DOMAIN actors \cap DOMAIN actors' :
          IF returned'.to = p /\ returned'.message.type = "ACTIONS"
          THEN /\ returned'.message.actions = action_history[p]
               /\ action_history'[p] = << >>
               /\ mirror[p].init_state = "GAME_STARTED" =>
                    \A q \in DOMAIN mirror[p].game[1].actors \ {p} :
                        mirror'[p].game[1].actors[q].actions =
                            mirror[p].game[1].actors[q].actions \o
                            SelectSeq(action_history[p], LAMBDA a : a.id = q)
          ELSE action_history'[p] = action_history[p] \o Recorded(record_log')
      ]_vars

\* The follower's client received the leader's action and the card's, in the
\* order they were committed, and its mirror queued the leader's.
C4_Witness ==
    \E p \in DOMAIN actors, q \in DOMAIN actors :
        /\ p # q
        /\ returned.to = p
        /\ returned.message.type = "ACTIONS"
        /\ Len(returned.message.actions) >= 2
        /\ returned.message.actions[1].id = q
        /\ mirror[p].init_state = "GAME_STARTED"
        /\ mirror[p].game[1].actors[q].actions = << returned.message.actions[1] >>
        /\ action_history[p] = << >>

----------------------------------------------------------------------------
(* Validation. *)

\* A TRANSLATE whose displacement is longer than 1.001.
FarStep(action) ==
    /\ action.action_type = TRANSLATE
    /\ CartesianNormSq4(action.displacement) * 1000000 > 4 * 1002001

\* C10: a TRANSLATE longer than 1.001 is never stepped: no handler records one
\* and no outbox holds one; the tick that finds one at the head of an actor's
\* queue drops it, leaves the actor where it is and clears the actor's synced
\* bit; an actor moves only by the displacement at the head of its queue.
C10_FarStepRejected ==
    [][/\ \A i \in DOMAIN record_log' :
            record_log'[i].kind = "action" => ~FarStep(record_log'[i].action)
       /\ \A p \in DOMAIN action_history' : \A i \in DOMAIN action_history'[p] :
            ~FarStep(action_history'[p][i])
       /\ \A q \in DOMAIN actors \cap DOMAIN actors' :
            /\ (/\ turn_state.turns_left # -1
                /\ actors[q].actions # << >>
                /\ FarStep(Head(actors[q].actions))
                /\ Update) =>
                    /\ actors'[q].location = actors[q].location
                    /\ actors'[q].actions = Tail(actors[q].actions)
                    /\ ~synced'[q]
            /\ actors'[q].location # actors[q].location =>
                    /\ actors[q].actions # << >>
                    /\ ~FarStep(Head(actors[q].actions))
                    /\ actors'[q].location =
                            HecsAdd(actors[q].location, Head(actors[q].actions).displacement)
      ]_vars

\* A tick has just rejected an action as invalid, in the actor's own turn and
\* with moves remaining; the actor is out of sync and still at its spawn point.
C10_Witness ==
    \E q \in DOMAIN actors :
        /\ \E i \in DOMAIN record_log :
                record_log[i].kind = "error" /\ record_log[i].actor_id = q
        /\ ~synced[q]
        /\ actors[q].location = Hecs(0, 0, 0)
        /\ actors[q].actions = << >>

----------------------------------------------------------------------------
(* Turns. record_log is what the last step recorded, in order: the actions   *)
(* and the turn states.                                                      *)

\* C5: moves_remaining is never negative, in the current turn state or in
\* one queued for a client.
C5_MovesRemainingNotNegative ==
    /\ turn_state.moves_remaining >= 0
    /\ \A p \in DOMAIN turn_history : \A i \in DOMAIN turn_history[p] :
            turn_history[p][i].moves_remaining >= 0

\* A tick has committed the last move of a turn.
C5_Witness ==
    /\ turn_state.moves_remaining = 0
    /\ ~turn_state.game_over
    /\ \E i \in DOMAIN record_log :
            record_log[i].kind = "action" /\ record_log[i].action.id \in DOMAIN actors

\* Entry i of the log is an action a tick committed for an actor.
IsCommit(log, i) ==
    /\ log[i].kind = "action"
    /\ log[i].action.action_type # OUTLINE
    /\ log[i].action.id \in DOMAIN actors

\* Entry j is the first turn state recorded after entry i.
IsNextTurnState(log, i, j) ==
    /\ j > i
    /\ log[j].kind = "turn_state"
    /\ \A k \in (i + 1)..(j - 1) : log[k].kind # "turn_state"

\* The turn state in force when entry i was recorded, ts0 being the one before
\* the step.
TurnStateBefore(log, i, ts0) ==
    LET earlier == {k \in 1..(i - 1) : log[k].kind = "turn_state"}
    IN  IF earlier = {} THEN ts0
        ELSE log[CHOOSE k \in earlier : \A l \in earlier : l <= k].turn_state

\* The turn state that follows ts when the turn ends at time t.
EndOfTurn(ts, t) ==
    LET next_role == IF ts.turn = FOLLOWER THEN LEADER ELSE FOLLOWER
    IN  [turn |-> next_role,
         moves_remaining |-> IF next_role = LEADER THEN 5 ELSE 10,
         turns_left |-> ts.turns_left - 1,
         turn_end |-> t + (IF next_role = LEADER THEN 60 ELSE 45),
         game_start |-> ts.game_start,
         sets_collected |-> ts.sets_collected,
         score |-> ts.score,
         game_over |-> FALSE]

\* C6 as stated: the turn state recorded right after every committed action
\* has the same turn and turns_left and moves_remaining one lower.
C6_CommitTakesOneMoveAsStated ==
    [][\A i \in DOMAIN record_log' :
          IsCommit(record_log', i) =>
            \E j \in DOMAIN record_log' :
                /\ IsNextTurnState(record_log', i, j)
                /\ LET before == TurnStateBefore(record_log', i, turn_state)
                       after == record_log'[j].turn_state
                   IN  /\ after.turn = before.turn
                       /\ after.turns_left = before.turns_left
                       /\ after.moves_remaining = before.moves_remaining - 1
      ]_vars

\* C6: a turn state is recorded right after every committed action; when the
\* clock read after the commit is before turn_end it is the one before with
\* moves_remaining one lower and nothing else changed; when the turn's time
\* has run out by then it is the start of the other role's turn.
C6_CommitTakesOneMove ==
    [][\A i \in DOMAIN record_log' :
          IsCommit(record_log', i) =>
            \E j \in DOMAIN record_log' :
                /\ IsNextTurnState(record_log', i, j)
                /\ LET before == TurnStateBefore(record_log', i, turn_state)
                       after == record_log'[j].turn_state
                   IN  IF now' < before.turn_end
                       THEN /\ before.moves_remaining >= 1
                            /\ after = [before EXCEPT !.moves_remaining = @ - 1]
                       ELSE after = EndOfTurn(before, now')
      ]_vars

\* A tick has committed an action and recorded the turn state with one move
\* fewer, the turn still the leader's.
C6_Witness ==
    \E i \in DOMAIN record_log :
        /\ IsCommit(record_log, i)
        /\ i < Len(record_log)
        /\ record_log[Len(record_log)].kind = "turn_state"
        /\ turn_state.turn = LEADER
        /\ turn_state.moves_remaining = 4
        /\ turn_state.turns_left = 6

\* C7: a TURN_COMPLETE from the owner of the turn, and a tick that finds the
\* turn's time run out, end the turn: the role flips, moves_remaining is 5
\* for the leader and 10 for the follower, turns_left is one lower, turn_end
\* is the time of the call plus 60 or 45 seconds, and sets_collected, score
\* and game_start stay; a leader's TURN_COMPLETE in the initial turn state
\* gives FOLLOWER, 10 moves, 5 turns left.
C7_EndOfTurn ==
    [][/\ \A id \in DOMAIN actors :
            (actors[id].role = turn_state.turn /\ inputs' # inputs /\ TurnCompletePacket(id)) =>
                /\ turn_state' = EndOfTurn(turn_state, now)
                /\ record_log' = << [kind |-> "turn_state", turn_state |-> turn_state'] >>
                /\ turn_state = InitialTurnState =>
                        /\ turn_state'.turn = FOLLOWER
                        /\ turn_state'.moves_remaining = 10
                        /\ turn_state'.turns_left = 5
       /\ (turn_state.turns_left # -1 /\ now >= turn_state.turn_end /\ Update) =>
            \E i \in DOMAIN record_log' :
                /\ record_log'[i] =
                        [kind |-> "turn_state", turn_state |-> EndOfTurn(turn_state, now)]
                /\ \A k \in 1..(i - 1) :
                        record_log'[k] = [kind |-> "turn_state", turn_state |-> turn_state]
      ]_vars

\* The leader has ended the first turn.
C7_Witness ==
    /\ turn_state.turn = FOLLOWER
    /\ turn_state.moves_remaining = 10
    /\ turn_state.turns_left = 5
    /\ record_log = << [kind |-> "turn_state", turn_state |-> turn_state] >>

\* C8: a tick that finds turns_left below 0 records the game-over turn state
\* and sets done.
C8_OutOfTurnsEndsGame ==
    [][(turn_state.turns_left < 0 /\ Update) => (done' /\ turn_state'.game_over)]_vars

----------------------------------------------------------------------------
(* Sets. *)

\* Exactly three cards are selected and any two differ in colour, shape and
\* count.
ValidSetSelected ==
    LET S == {c \in DOMAIN cards : cards[c].selected}
    IN  /\ Cardinality(S) = 3
        /\ \A c \in S, d \in S :
                c # d => /\ cards[c].color # cards[d].color
                         /\ cards[c].shape # cards[d].shape
                         /\ cards[c].count # cards[d].count

\* The turns a set is worth when sets sets were collected before it.
Bonus(sets) ==
    CASE sets = 0 -> 5
      [] sets = 1 -> 4
      [] sets = 2 -> 4
      [] sets = 3 -> 3
      [] sets = 4 -> 3
      [] OTHER -> 0

\* Entry e of a log is the de-selection of a card.
IsDeselect(e) ==
    /\ e.kind = "action"
    /\ e.action.action_type = OUTLINE
    /\ e.action.border_radius = 0

\* C9: no step leaves a valid set selected; the step that collects one
\* records, last of all, a turn state with sets_collected and score one
\* higher, turns_left higher by 5, 4, 4, 3, 3, 0 for 0, 1, 2, 3, 4, 5 or more
\* sets before, and turn, moves_remaining and the rest as they were, then one
\* de-select action for each of the three cards, which reaches the end of
\* every outbox; the three cards are off the map, no card is selected, three
\* new cards are on the map, and the map is stale for every actor.
C9_SetCollected ==
    [][/\ ~ValidSetSelected'
       /\ turn_state'.sets_collected # turn_state.sets_collected =>
            LET log == record_log'
                n == Len(record_log')
            IN  /\ n >= 4
                /\ log[n - 3].kind = "turn_state"
                /\ \A k \in (n - 2)..n : IsDeselect(log[k])
                /\ LET before == TurnStateBefore(log, n - 3, turn_state)
                       picked == {log[k].action.id : k \in (n - 2)..n}
                       ends == << log[n - 2].action, log[n - 1].action, log[n].action >>
                   IN  /\ log[n - 3].turn_state =
                            [before EXCEPT
                                !.sets_collected = @ + 1,
                                !.score = @ + 1,
                                !.turns_left = @ + Bonus(before.sets_collected)]
                       /\ turn_state' = log[n - 3].turn_state
                       /\ Cardinality(picked) = 3
                       /\ picked \subseteq DOMAIN cards
                       /\ \A c \in picked, d \in picked :
                            c # d => /\ cards[c].color # cards[d].color
                                     /\ cards[c].shape # cards[d].shape
                                     /\ cards[c].count # cards[d].count
                       /\ \A c \in picked : \A d \in DOMAIN cards' :
                            cards'[d].location # cards[c].location
                       /\ \A d \in DOMAIN cards' : ~cards'[d].selected
                       /\ Cardinality({d \in DOMAIN cards' :
                                \A c \in DOMAIN cards :
                                    cards[c].location # cards'[d].location}) = 3
                       /\ Cardinality(DOMAIN cards') = Cardinality(DOMAIN cards)
                       /\ map_update' = cards'
                       /\ \A p \in DOMAIN actors :
                            /\ map_stale'[p]
                            /\ Len(action_history'[p]) >= 3
                            /\ SubSeq(action_history'[p], Len(action_history'[p]) - 2,
                                      Len(action_history'[p])) = ends
      ]_vars

\* A tick has collected a set, five or more having been collected before.
C9_Witness ==
    /\ turn_state.sets_collected > 5
    /\ record_log # << >>
    /\ IsDeselect(record_log[Len(record_log)])
    /\ \A p \in DOMAIN actors : map_stale[p]

----------------------------------------------------------------------------
(* Validation of turns and of the other action types. *)

\* The tick is about to handle the action at the head of q's queue in q's own
\* turn, with moves remaining and the turn's time not run out.
HandledInTurn(q) ==
    /\ turn_state.turns_left # -1
    /\ actors[q].actions # << >>
    /\ actors[q].role = turn_state.turn
    /\ turn_state.moves_remaining > 0
    /\ now < turn_state.turn_end

\* |rotation| > 60.01, the rotation being whole degrees.
BeyondSixty(rotation) == rotation * 100 > 6001 \/ (0 - rotation) * 100 > 6001

\* C11: the tick that handles a ROTATE in the actor's own turn with moves
\* remaining rejects it when |rotation| > 60.01, to either side (the action is
\* dropped and not recorded, the actor is out of sync, its heading unchanged),
\* and commits it otherwise (the heading turns by the rotation and the action
\* is recorded).
C11_RotateWithinSixty ==
    [][\A q \in DOMAIN actors \cap DOMAIN actors' :
          (/\ HandledInTurn(q)
           /\ Head(actors[q].actions).action_type = ROTATE
           /\ Update) =>
             LET action == Head(actors[q].actions)
                 committed == \E i \in DOMAIN record_log' :
                                record_log'[i] = [kind |-> "action", action |-> action]
             IN  /\ actors'[q].actions = Tail(actors[q].actions)
                 /\ IF BeyondSixty(action.rotation)
                    THEN /\ ~committed
                         /\ ~synced'[q]
                         /\ actors'[q].heading_degrees = actors[q].heading_degrees
                    ELSE /\ committed
                         /\ actors'[q].heading_degrees =
                                actors[q].heading_degrees + action.rotation
      ]_vars

\* C12: the tick that finds an INIT, INSTANT, OUTLINE or DEATH at the head of
\* an actor's queue does not step it: the action is not recorded and reaches
\* no outbox, and the actor's location and heading stay; when no other actor
\* has an action pending and the turn's time has not run out, no move is taken.
C12_OtherTypesRejected ==
    [][\A q \in DOMAIN actors \cap DOMAIN actors' :
          (/\ turn_state.turns_left # -1
           /\ actors[q].actions # << >>
           /\ Head(actors[q].actions).action_type \notin {TRANSLATE, ROTATE}
           /\ Update) =>
             LET action == Head(actors[q].actions)
             IN  /\ \A i \in DOMAIN record_log' :
                        record_log'[i] # [kind |-> "action", action |-> action]
                 /\ \A p \in DOMAIN action_history' :
                        Len(action_history'[p]) = Len(action_history[p])
                 /\ actors'[q].location = actors[q].location
                 /\ actors'[q].heading_degrees = actors[q].heading_degrees
                 /\ (/\ now < turn_state.turn_end
                     /\ \A p \in DOMAIN actors \ {q} : actors[p].actions = << >>) =>
                        turn_state'.moves_remaining = turn_state.moves_remaining
      ]_vars

\* Location h after the TRANSLATE actions for actor q among actions, in order.
RECURSIVE Translated(_, _, _)
Translated(h, q, actions) ==
    IF actions = << >> THEN h
    ELSE Translated(
            IF Head(actions).id = q /\ Head(actions).action_type = TRANSLATE
            THEN HecsAdd(h, Head(actions).displacement) ELSE h,
            q, Tail(actions))

\* C13: an actor starts at the spawn point popped for it, and every step
\* leaves it where it was plus the displacements of the TRANSLATE actions the
\* step committed for it; no other committed action moves it. So its location
\* is always the spawn point plus the committed TRANSLATE displacements.
C13_LocationIsSumOfTranslates ==
    [][\A q \in DOMAIN actors' :
          IF q \in DOMAIN actors
          THEN actors'[q].location =
                    Translated(actors[q].location, q, Recorded(record_log'))
          ELSE actors'[q].location =
                    IF spawn_points # << >> THEN spawn_points[Len(spawn_points)]
                    ELSE Hecs(0, 0, 0)
      ]_vars

----------------------------------------------------------------------------
(* Inputs and whose turn it is. *)

\* The fields of the room other than the synced bits.
RoomButSynced ==
    << actors, actor_order, id_assigner, spawn_points, cards, map_update, objectives,
       objectives_stale, map_stale, action_history, turn_history, turn_state, last_tick,
       done, current_set_invalid >>

\* C14: a message from an actor whose role does not own the turn changes
\* nothing of the room but the sender's synced bit: a TURN_COMPLETE, an
\* OBJECTIVE and an OBJECTIVE_COMPLETED change no other field; a movement
\* action waits in the sender's queue and the tick that handles it, the turn
\* still not the sender's, drops it, desyncs the sender and leaves the
\* sender's location and heading, the outboxes and the turn state as they were.
C14_OnlyOwnTurnInput ==
    [][\A id \in DOMAIN actors :
          actors[id].role # turn_state.turn =>
            /\ (/\ inputs' # inputs
                /\ \/ TurnCompletePacket(id)
                   \/ ObjectivePacket(id)
                   \/ ObjectiveCompletedPacket(id)) =>
                    /\ RoomButSynced' = RoomButSynced
                    /\ \A p \in DOMAIN synced \ {id} : synced'[p] = synced[p]
            /\ (inputs' # inputs /\ ActionsPacket(id)) =>
                    /\ \A p \in DOMAIN actors :
                            /\ actors'[p].location = actors[p].location
                            /\ actors'[p].heading_degrees = actors[p].heading_degrees
                    /\ << cards, objectives, objectives_stale, map_stale, action_history,
                          turn_history, turn_state, done >>' =
                       << cards, objectives, objectives_stale, map_stale, action_history,
                          turn_history, turn_state, done >>
            /\ (/\ turn_state.turns_left # -1
                /\ now < turn_state.turn_end
                /\ actors[id].actions # << >>
                /\ \A p \in DOMAIN actors \ {id} : actors[p].actions = << >>
                /\ Update) =>
                    /\ actors'[id] = [actors[id] EXCEPT !.actions = Tail(@)]
                    /\ ~synced'[id]
                    /\ action_history' = action_history
                    /\ turn_state' = turn_state
      ]_vars

\* C15: a TURN_COMPLETE from the actor whose role owns the turn ends the turn:
\* the turn state becomes the start of the other role's turn, with turns_left
\* one lower, and is queued for every actor; a TURN_COMPLETE from the other
\* actor records nothing and leaves the turn state, the turn-state queues, the
\* outboxes and the actors' own queues as they were. Neither moves an actor.
C15_TurnComplete ==
    [][\A id \in DOMAIN actors :
          (inputs' # inputs /\ TurnCompletePacket(id)) =>
            /\ actors' = actors
            /\ action_history' = action_history
            /\ IF actors[id].role = turn_state.turn
               THEN /\ turn_state'.turn # turn_state.turn
                    /\ turn_state'.turn \in Roles
                    /\ turn_state'.turns_left = turn_state.turns_left - 1
                    /\ turn_state' = EndOfTurn(turn_state, now)
                    /\ \A p \in DOMAIN actors :
                            turn_history'[p] = Append(turn_history[p], turn_state')
               ELSE /\ turn_state' = turn_state
                    /\ turn_history' = turn_history
                    /\ record_log' = << >>
      ]_vars

\* The leader has ended the game's last turn and the new turn state is at the
\* end of both players' queues.
C15_Witness ==
    /\ turn_state.turn = FOLLOWER
    /\ turn_state.turns_left = -1
    /\ record_log = << [kind |-> "turn_state", turn_state |-> turn_state] >>
    /\ Cardinality(DOMAIN actors) = 2
    /\ \A p \in DOMAIN actors :
            /\ turn_history[p] # << >>
            /\ turn_history[p][Len(turn_history[p])] = turn_state

----------------------------------------------------------------------------
(* Objectives. *)

C17_ObjectivesFrame ==
    [][\A id \in DOMAIN actors :
          (/\ inputs' # inputs
           /\ ObjectivePacket(id) \/ ObjectiveCompletedPacket(id)) =>
            /\ turn_state' = turn_state
            /\ cards' = cards
            /\ map_update' = map_update
            /\ current_set_invalid' = current_set_invalid
            /\ actors' = actors
            /\ synced' = synced
            /\ map_stale' = map_stale
            /\ action_history' = action_history
            /\ turn_history' = turn_history
            /\ done' = done
      ]_vars

\* The follower has completed the leader's objective.
C17_Witness ==
    /\ objectives # << >>
    /\ objectives[1].completed
    /\ \A p \in DOMAIN actors : p \in DOMAIN objectives_stale /\ objectives_stale[p]
    /\ \E i \in DOMAIN record_log : record_log[i].kind = "objective_complete"

----------------------------------------------------------------------------
(* The cast. *)

\* C18: a step that changes the cast (create_actor, free_actor) leaves every
\* actor of the room, the new one included, with synced false; a synced bit
\* that is false becomes true only by the drain that returns the actor's
\* StateSync, and while it is false a drain for the actor that is not a
\* MapUpdate is that StateSync, which lists the whole cast.
C18_CastChangeDesyncsAll ==
    [][/\ DOMAIN actors' # DOMAIN actors =>
            \A p \in DOMAIN actors' : p \in DOMAIN synced' /\ ~synced'[p]
       /\ \A p \in DOMAIN actors \cap DOMAIN actors' :
            ~synced[p] =>
                /\ synced'[p] =>
                        /\ returned'.to = p
                        /\ returned'.message.type = "STATE_SYNC"
                /\ (returned'.to = p /\ returned'.message.type # "MAP_UPDATE") =>
                        /\ returned'.message.type = "STATE_SYNC"
                        /\ returned'.message.state.population = Cardinality(DOMAIN actors)
                        /\ {returned'.message.state.actors[i].actor_id :
                                i \in DOMAIN returned'.message.state.actors} = DOMAIN actors
      ]_vars

\* One player has left and the other, whose game had started, has been sent
\* the StateSync of a cast of one.
C18_Witness ==
    /\ Cardinality(DOMAIN actors) = 1
    /\ returned.to \in DOMAIN actors
    /\ returned.message.type = "STATE_SYNC"
    /\ returned.message.state.population = 1
    /\ mirror[returned.to].init_state = "GAME_STARTED"
    /\ synced[returned.to]

\* C19: an id that is not an actor's (never allocated to one, or freed and not
\* created again) is a key of none of the outboxes, the synced bits, the
\* map_stale bits, the objectives_stale bits and the turn-state queues.
C19_FreedActorForgotten ==
    \A id \in Ids \ DOMAIN actors :
        /\ id \notin DOMAIN action_history
        /\ id \notin DOMAIN synced
        /\ id \notin DOMAIN map_stale
        /\ id \notin DOMAIN objectives_stale
        /\ id \notin DOMAIN turn_history

----------------------------------------------------------------------------
(* The end of the game. *)

\* C20 as stated: once done is set no tick runs and every drain_message call
\* returns nothing.
C20_DoneIsSilent ==
    [][done => /\ ~Update
               /\ returned'.to # -1 => returned'.message.type = "NONE"]_vars

\* C20: the tick that records the game-over turn state sets done and has
\* queued that turn state for every actor; once done is set it stays set and
\* no tick runs, so no action is committed and no actor moves or turns; a
\* drain still returns what is pending for the actor, by the usual priority,
\* and nothing only when nothing is pending.
C20_DoneStopsTicks ==
    [][/\ turn_state'.game_over => done'
       /\ (~done /\ done') =>
            \A p \in DOMAIN actors' :
                /\ turn_history'[p] # << >>
                /\ turn_history'[p][Len(turn_history'[p])].game_over
       /\ done =>
            /\ done'
            /\ ~Update
            /\ Recorded(record_log') = << >>
            /\ \A p \in DOMAIN actors \cap DOMAIN actors' :
                    /\ actors'[p].location = actors[p].location
                    /\ actors'[p].heading_degrees = actors[p].heading_degrees
            /\ \A p \in Ids : returned'.to = p => returned'.message.type = Due(p)
      ]_vars

\* The game is over and a drain has just returned the game-over turn state.
C20_Witness ==
    /\ done
    /\ returned.to \in DOMAIN actors
    /\ returned.message.type = "GAME_STATE"
    /\ returned.message.turn_state.game_over

----------------------------------------------------------------------------
(* Joining and leaving. *)

\* The client of actor p has been sent a MapUpdate, a StateSync that lists p
\* and a GameState, and has started its game.
Joined(p) ==
    /\ mirror[p].init_state = "GAME_STARTED"
    /\ mirror[p].map_update # << >>
    /\ mirror[p].turn_state # << >>
    /\ mirror[p].state_sync # << >>
    /\ \E i \in DOMAIN mirror[p].state_sync[1].actors :
            mirror[p].state_sync[1].actors[i].actor_id = p

\* C21: the fresh room's turn state is LEADER, 5 moves, 6 turns left, no sets
\* and no score; and, the tick loop running and the sessions draining, every
\* admitted actor's client is eventually sent a MapUpdate, a StateSync that
\* lists the actor and a GameState, unless the actor leaves or the game ends
\* first. The actor is admitted before the clock of the model has run out.
C21_FreshRoomAndJoin ==
    /\ turn_state.turn = LEADER
    /\ turn_state.moves_remaining = 5
    /\ turn_state.turns_left = 6
    /\ turn_state.sets_collected = 0
    /\ turn_state.score = 0
    /\ \A p \in Ids :
            (p \in DOMAIN actors /\ now < ClockMax)
                ~> (p \notin DOMAIN actors \/ done \/ Joined(p))

\* The actor ids a StateSync lists.
Listed(state_sync) == {state_sync.actors[i].actor_id : i \in DOMAIN state_sync.actors}

\* C22: when a session's transport closes, free_actor removes that actor and
\* no other, every actor that remains is marked out of sync, the StateSync
\* the room now holds for each of them lists exactly the actors that remain,
\* and the game goes on: done and the turn state are as they were. A StateSync
\* a drain returns lists exactly the actors of the room.
C22_DepartureKeepsRoomRunning ==
    [][/\ \A id \in DOMAIN actors :
            (inputs' # inputs /\ FreeActor(id)) =>
                /\ DOMAIN actors' = DOMAIN actors \ {id}
                /\ done' = done
                /\ turn_state' = turn_state
                /\ \A p \in DOMAIN actors' :
                    /\ actors'[p] = actors[p]
                    /\ ~synced'[p]
                    /\ Listed(state(Room, p)') = DOMAIN actors \ {id}
                    /\ state(Room, p)'.population = Cardinality(DOMAIN actors) - 1
       /\ returned'.message.type = "STATE_SYNC" =>
            /\ Listed(returned'.message.state) = DOMAIN actors'
            /\ returned'.message.state.population = Cardinality(DOMAIN actors')
      ]_vars

\* The leader has left a running game, and the follower has been sent a
\* StateSync that lists the follower alone.
C22_Witness ==
    /\ ~done
    /\ \E p \in DOMAIN actors :
        /\ DOMAIN actors = {p}
        /\ actors[p].role = FOLLOWER
        /\ returned.to = p
        /\ returned.message.type = "STATE_SYNC"
        /\ Listed(returned.message.state) = {p}

----------------------------------------------------------------------------
(* The order of committed actions. *)

\* What a step appended to a sequence.
Appended(old, new) == SubSeq(new, Len(old) + 1, Len(new))

IsSuffix(a, b) == Len(a) <= Len(b) /\ a = SubSeq(b, Len(b) - Len(a) + 1, Len(b))

\* C23: the committed actions reach every client in one order: a step that
\* drains the actions of neither p nor q appends the same sequence to the
\* outboxes of both, and after every step one of the two outboxes is a suffix
\* of the other.
C23_OneOrderForAll ==
    [][\A p, q \in DOMAIN actors \cap DOMAIN actors' :
          /\ (/\ ~(returned'.to = p /\ returned'.message.type = "ACTIONS")
              /\ ~(returned'.to = q /\ returned'.message.type = "ACTIONS")) =>
                /\ Len(action_history'[p]) >= Len(action_history[p])
                /\ Len(action_history'[q]) >= Len(action_history[q])
                /\ Appended(action_history[p], action_history'[p]) =
                   Appended(action_history[q], action_history'[q])
          /\ \/ IsSuffix(action_history'[p], action_history'[q])
             \/ IsSuffix(action_history'[q], action_history'[p])
      ]_vars

\* Actions were committed in different ticks and one client drained in
\* between: its outbox holds what the second tick committed, the other's
\* holds that after what the first tick committed.
C23_Witness ==
    \E p, q \in DOMAIN actors :
        /\ Len(action_history[p]) >= 1
        /\ Len(action_history[q]) > Len(action_history[p])
        /\ IsSuffix(action_history[p], action_history[q])

\* C24: the actions of different actors that one tick commits are recorded
\* in ascending order of actor id.
C24_SameTickInIdOrder ==
    [][\A i, j \in DOMAIN Recorded(record_log') :
          (/\ i < j
           /\ Recorded(record_log')[i].id \in DOMAIN actors
           /\ Recorded(record_log')[j].id \in DOMAIN actors) =>
                Recorded(record_log')[i].id <= Recorded(record_log')[j].id
      ]_vars

\* C25: the step in which a session hands a message to handle_packet changes
\* neither the turn state, nor the list of objectives, nor any actor's queue
\* of turn states: those change in the tick loop only.
C25_PacketsOnlySubmit ==
    [][\A id \in DOMAIN actors :
          (/\ inputs' # inputs
           /\ \/ ActionsPacket(id)
              \/ ObjectivePacket(id)
              \/ ObjectiveCompletedPacket(id)
              \/ TurnCompletePacket(id)
              \/ StateSyncRequestPacket(id)) =>
                /\ turn_state' = turn_state
                /\ objectives' = objectives
                /\ turn_history' = turn_history
      ]_vars

----------------------------------------------------------------------------
(* The client. *)

JoinKinds == {"JOINED", "STATE_SYNC", "MAP_UPDATE", "PROP_UPDATE", "GAME_STATE"}

\* C26: whatever the order in which the JoinResponse that says joined, the
\* StateSync, the MapUpdate, the PropUpdate and the GameState arrive, the
\* client that has read all five has started its game, and a client has a
\* Game only when it has read all five.
C26_JoinInAnyOrder ==
    /\ JoinKinds \subseteq mirror[1].seen =>
            mirror[1].init_state = "GAME_STARTED" /\ mirror[1].game # << >>
    /\ mirror[1].game # << >> => JoinKinds \subseteq mirror[1].seen

JoinFailures == {"Booted from queue", "Timed out waiting for game", "Socket closed."}

\* C27: after a join that failed (booted from the queue, timed out, socket
\* closed) the client is CONNECTED or GAME_OVER and _join_queue accepts a new
\* attempt.
C27_FailedJoinRecovers ==
    (/\ mirror[1].call = "none"
     /\ ~mirror[1].result.ok
     /\ mirror[1].result.reason \in JoinFailures) =>
        /\ mirror[1].init_state \in {"CONNECTED", "GAME_OVER"}
        /\ join_queue(mirror[1], "DEFAULT").result.ok

\* What the spec lets a player send: a lead action from the leader in the
\* leader's turn, a follow action from the follower in the follower's turn,
\* feedback from the leader in the follower's turn.
Allowed(g, action) ==
    \/ action.class = "LeadAction" /\ g.player_role = LEADER /\ g.turn_state.turn = LEADER
    \/ action.class = "FollowAction" /\ g.player_role = FOLLOWER
       /\ g.turn_state.turn = FOLLOWER
    \/ action.class = "LeadFeedbackAction" /\ g.player_role = LEADER
       /\ g.turn_state.turn = FOLLOWER

\* C28: Game.step checks role and turn before it sends: a call with an
\* action that is not allowed raises ValueError, sends nothing, not even the
\* queued messages, leaves the mirror as it was and does not wait; a call
\* that sends or waits was made with an allowed action.
C28_StepValidatesFirst ==
    [][\A action \in ClientActions :
          Step(action) =>
            /\ ~Allowed(mirror[1].game[1], action) =>
                /\ mirror'[1].result.raised = "ValueError"
                /\ mirror'[1].sent = mirror[1].sent
                /\ mirror'[1].game = mirror[1].game
                /\ mirror'[1].call = "none"
            /\ (mirror'[1].sent # mirror[1].sent \/ mirror'[1].call = "step") =>
                Allowed(mirror[1].game[1], action)
      ]_vars

\* A Pong was waiting to be sent when a step was refused: nothing was sent.
C28_Witness ==
    /\ mirror[1].call = "none"
    /\ mirror[1].result.raised = "ValueError"
    /\ mirror[1].game[1].queued_messages # << >>
    /\ \A i \in DOMAIN mirror[1].sent : mirror[1].sent[i].type # "PONG"

\* C29: a call of Game.step returns only after it has read a
\* STATE_MACHINE_TICK since it sent, and only when the mirror says the player
\* can act: the player is the leader or the turn is the player's. A
\* follower's step does not return while the mirrored turn is the leader's.
C29_StepReturnsAfterTick ==
    [][(/\ mirror[1].call = "step"
        /\ mirror'[1].call = "none"
        /\ mirror'[1].result.raised = "NONE") =>
            /\ mirror'[1].result.ok
            /\ mirror'[1].ticks >= 1
            /\ \/ mirror'[1].game[1].player_role = LEADER
               \/ mirror'[1].game[1].player_role = mirror'[1].game[1].turn_state.turn
            /\ mirror'[1].game[1].player_role = FOLLOWER =>
                    mirror'[1].game[1].turn_state.turn # LEADER
      ]_vars

\* A follower's step waited through a tick in the leader's turn and returned
\* at the next tick, the turn the follower's again.
C29_Witness ==
    /\ mirror[1].call = "none"
    /\ mirror[1].result.ok
    /\ mirror[1].ticks >= 2
    /\ mirror[1].game[1].player_role = FOLLOWER
    /\ mirror[1].game[1].turn_state.turn = FOLLOWER
    /\ mirror[1].sent[Len(mirror[1].sent)].type = "INSTRUCTION_DONE"

Pongs(sent) == Len(SelectSeq(sent, LAMBDA message : message.type = "PONG"))

\* C30: the client has sent no more Pongs than it has read PINGs.
C30_OnePongPerPing ==
    Pongs(mirror[1].sent) <= mirror[1].pings

----------------------------------------------------------------------------
(* A step that runs out of time. *)

\* What the client mirrors of the room: the actors with their queued actions,
\* the turn state, the map and the objectives.
Mirrored(g) ==
    [actors |-> g.actors, turn_state |-> g.turn_state, map_update |-> g.map_update,
     objectives |-> g.objectives]

\* C31: a step whose wait for a tick runs out of time fails, and the mirror
\* (actors with their queued actions, turn state, map, objectives) is then as
\* it was when step was called.
C31_TimeoutLeavesMirror ==
    (mirror[1].call = "none" /\ mirror[1].result.reason = "Timed out waiting for tick")
        => /\ ~mirror[1].result.ok
           /\ Mirrored(mirror[1].game[1]) = Mirrored(mirror[1].held[1])

----------------------------------------------------------------------------
(* A pending action the tick loop drops. *)

\* The step handled the head of p's queue and committed no action for p: the
\* tick loop dropped it.
Dropped(p) ==
    /\ p \in DOMAIN actors /\ p \in DOMAIN actors'
    /\ actors[p].actions # << >>
    /\ actors'[p].actions = Tail(actors[p].actions)
    /\ \A i \in DOMAIN record_log' :
            ~(record_log'[i].kind = "action" /\ record_log'[i].action.id = p)

\* The iteration recorded no action and no turn state: it did nothing but drop.
OnlyDrops == \A i \in DOMAIN record_log' : record_log'[i].kind = "error"

\* C32: when the tick loop drops an actor's pending action, the head of the
\* actor's queue is removed and the actor is marked out of sync, where it
\* stands and how it is turned stay; and the drops of an iteration leave the
\* turn state, every outbox, the cards' selection and the synced bits of the
\* actors whose action was not dropped as they were.
C32_DropOnlyDesyncs ==
    [][/\ \A p \in DOMAIN actors :
            Dropped(p) =>
                /\ ~synced'[p]
                /\ actors'[p].location = actors[p].location
                /\ actors'[p].heading_degrees = actors[p].heading_degrees
       /\ ((\E p \in DOMAIN actors : Dropped(p)) /\ OnlyDrops) =>
                /\ turn_state' = turn_state
                /\ action_history' = action_history
                /\ \A c \in DOMAIN cards :
                        c \in DOMAIN cards' /\ cards'[c].selected = cards[c].selected
                /\ \A q \in DOMAIN actors :
                        ~Dropped(q) => (actors'[q] = actors[q] /\ synced'[q] = synced[q])
      ]_vars

\* A tick has dropped an invalid action of an actor that was in step with
\* the room, while the other actor is in step still.
C32_Witness ==
    \E p, q \in DOMAIN actors :
        /\ p # q
        /\ record_log = << [kind |-> "error", actor_id |-> p] >>
        /\ ~synced[p]
        /\ synced[q]

----------------------------------------------------------------------------
(* Stepping on a card. *)

\* Entry i of the log is an OUTLINE of card c.
IsOutline(log, i, c) ==
    /\ i \in DOMAIN log
    /\ log[i].kind = "action"
    /\ log[i].action.action_type = OUTLINE
    /\ log[i].action.id = c

\* Whether card c was selected when entry i was recorded: its bit before the
\* step, turned over once for every step onto it recorded before entry i.
SelectedBefore(log, i, c) ==
    LET commits == {k \in 1..(i - 1) : IsCommit(log, k) /\ IsOutline(log, k + 1, c)}
    IN  IF Cardinality(commits) % 2 = 0 THEN cards[c].selected ELSE ~cards[c].selected

----------------------------------------------------------------------------
(* The selection's validity. *)

\* How many entries of the log are the given action.
Count(log, action) ==
    Cardinality({i \in DOMAIN log : log[i] = [kind |-> "action", action |-> action]})

\* C34: between tick iterations current_set_invalid is true exactly when the
\* selected cards collide; a tick that changes it records one OUTLINE for
\* each card that is selected (red when it becomes true, blue when it becomes
\* false; for the cards left selected when no set is collected), every outbox
\* is given the actions the tick recorded, and the map is marked stale for
\* every actor.
C34_InvalidIffCollide ==
    /\ [](current_set_invalid <=> selected_cards_collide(cards))
    /\ [][current_set_invalid' # current_set_invalid =>
            LET color == IF current_set_invalid' THEN RED ELSE BLUE
            IN  /\ \A c \in DOMAIN cards' :
                    (/\ turn_state'.sets_collected = turn_state.sets_collected
                     /\ cards'[c].selected) =>
                        Count(record_log', CardSelectAction(c, TRUE, color)) = 1
                /\ \A q \in DOMAIN actors :
                    /\ action_history'[q] = action_history[q] \o Recorded(record_log')
                    /\ q \in DOMAIN map_stale'
                    /\ map_stale'[q]
         ]_vars

\* A tick has found the selection valid again: a step gave up one of two
\* colliding cards (its outline red), and the card left selected was
\* outlined in blue.
C34_Witness ==
    /\ ~current_set_invalid
    /\ \E c, d \in DOMAIN cards :
        /\ cards[c].selected
        /\ ~cards[d].selected
        /\ Count(record_log, CardSelectAction(d, FALSE, RED)) = 1
        /\ Count(record_log, CardSelectAction(c, TRUE, BLUE)) = 1
        /\ \A q \in DOMAIN actors : map_stale[q]

----------------------------------------------------------------------------
(* The moves of a turn. In these rooms each player has one turn within the   *)
(* clock's range and every committed action is a step to the west from the   *)
(* spawn point: an actor has had as many actions committed as it stands      *)
(* cells west.                                                               *)

Committed(id) == SpawnPoints[1].c - actors[id].location.c

\* C35: within a turn at most moves_per_turn actions are committed for the
\* turn's owner, 5 for the leader and 10 for the follower, and every action
\* committed is the turn owner's, however many either client queues.
C35_MovesPerTurn ==
    /\ [](\A id \in DOMAIN actors :
            /\ Committed(id) <= moves_per_turn(actors[id].role)
            /\ actors[id].role = LEADER => Committed(id) <= 5
            /\ actors[id].role = FOLLOWER => Committed(id) <= 10)
    /\ [][/\ \A i \in DOMAIN record_log' :
                IsCommit(record_log', i) =>
                    actors[record_log'[i].action.id].role =
                        TurnStateBefore(record_log', i, turn_state).turn
          /\ \A id \in DOMAIN actors :
                actors'[id].location # actors[id].location =>
                    \E j \in DOMAIN record_log' :
                        IsCommit(record_log', j) /\ record_log'[j].action.id = id
         ]_vars

\* The leader has had five actions committed in its turn, and a tick has
\* dropped the sixth.
C35_Witness ==
    \E id \in DOMAIN actors :
        /\ actors[id].role = LEADER
        /\ turn_state.turn = LEADER
        /\ turn_state.moves_remaining = 0
        /\ Committed(id) = LEADER_MOVES_PER_TURN
        /\ actors[id].actions = << >>
        /\ ~synced[id]

----------------------------------------------------------------------------
(* The end of the game. *)

\* C36: every game ends: with the tick loop running and time advancing, done
\* is reached, whoever remains in the room and however the TURN_COMPLETE
\* messages fall between the ticks.
C36_GameEnds == <>done

----------------------------------------------------------------------------
(* Whose actor a session moves. *)

\* C37: an action that names another id than the sender's session's is
\* queued for no actor and only marks the sender out of sync; an action of a
\* session is queued for its own actor only; every queued action names the
\* actor it is queued for, and an actor's location and heading change only
\* when a tick commits the head of that actor's own queue.
C37_OwnActorOnly ==
    /\ [](\A q \in DOMAIN actors :
            \A i \in DOMAIN actors[q].actions : actors[q].actions[i].id = q)
    /\ [][/\ \A p \in Ids, other \in Ids :
                NamingPacket(p, other) =>
                    /\ \A q \in DOMAIN actors : q # p => actors'[q] = actors[q]
                    /\ actors'[p].location = actors[p].location
                    /\ actors'[p].heading_degrees = actors[p].heading_degrees
                    /\ other # p =>
                        /\ actors' = actors
                        /\ synced' = [synced EXCEPT ![p] = FALSE]
                        /\ action_history' = action_history
                        /\ turn_state' = turn_state
                        /\ turn_history' = turn_history
                        /\ cards' = cards
                        /\ map_stale' = map_stale
                        /\ objectives_stale' = objectives_stale
          /\ \A q \in DOMAIN actors :
                (\/ actors'[q].location # actors[q].location
                 \/ actors'[q].heading_degrees # actors[q].heading_degrees) =>
                    /\ actors[q].actions # << >>
                    /\ Head(actors[q].actions).id = q
                    /\ \E i \in DOMAIN record_log' :
                            /\ IsCommit(record_log', i)
                            /\ record_log'[i].action = Head(actors[q].actions)
         ]_vars

\* The leader's session has sent an action under another id in the leader's
\* turn: nobody has moved or has an action pending, and the leader is out of
\* sync.
C37_Witness ==
    /\ inputs = 1
    /\ now = ClockStep
    /\ turn_state.turn = LEADER
    /\ \E p \in DOMAIN actors : actors[p].role = LEADER /\ ~synced[p]
    /\ \A q \in DOMAIN actors :
            actors[q].actions = << >> /\ actors[q].location = SpawnPoints[1]

----------------------------------------------------------------------------
(* The mirror after a full drain. *)

\* Where p's mirror has actor a once the actions queued for a are applied.
MirroredLocation(p, a) ==
    Translated(mirror[p].game[1].actors[a].location, a, mirror[p].game[1].actors[a].actions)

\* C38: a drain that returns the StateSync leaves in p's outbox no action
\* recorded before the snapshot, to be applied on top of it; and when a drain
\* for p has returned nothing and p's mirror has applied what it was sent,
\* the mirror has every other actor where the server has it.
C38_MirrorAfterFullDrain ==
    /\ [][\A p \in DOMAIN actors' :
            (returned'.to = p /\ returned'.message.type = "STATE_SYNC") =>
                action_history'[p] = << >>
         ]_vars
    /\ [](\A p \in DOMAIN actors :
            (/\ returned.to = p
             /\ returned.message.type = "NONE"
             /\ mirror[p].init_state = "GAME_STARTED") =>
                \A a \in DOMAIN actors \ {p} :
                    /\ a \in DOMAIN mirror[p].game[1].actors
                    /\ MirroredLocation(p, a) = actors[a].location)

----------------------------------------------------------------------------
(* An id that is used again. *)

\* C39: an actor admitted under an id a freed actor held starts with nothing
\* of that actor's: the first message drained for it is the MapUpdate, the
\* next the StateSync, and its outbox and its turn-state queue are empty.
C39_ReusedIdStartsClean ==
    [][\A p \in Ids :
          (p \notin DOMAIN actors /\ p \in DOMAIN actors' /\ p \in DOMAIN synced) =>
                LET first == drain_message(Room', p)
                    second == drain_message(first, p)
                IN  /\ first.returned.message.type = "MAP_UPDATE"
                    /\ second.returned.message.type = "STATE_SYNC"
                    /\ action_history'[p] = << >>
                    /\ p \in DOMAIN turn_history' => turn_history'[p] = << >>
      ]_vars

----------------------------------------------------------------------------
(* The drain loop. *)

\* The types of the messages that calls of drain_message for p return from
\* room s on, up to the first call that returns nothing; MORE stands for what
\* follows the n-th message.
RECURSIVE DrainRun(_, _, _)
DrainRun(s, p, n) ==
    LET s1 == drain_message(s, p)
    IN  IF s1.returned.message.type = "NONE" THEN << >>
        ELSE IF n = 0 THEN << "MORE" >>
        ELSE << s1.returned.message.type >> \o DrainRun(s1, p, n - 1)

Times(types, type) == Cardinality({i \in DOMAIN types : types[i] = type})

Queued(p) == IF p \in DOMAIN turn_history THEN Len(turn_history[p]) ELSE 0

\* C40: from every room state, repeated drain_message(p) calls with nothing
\* in between return nothing after at most one MapUpdate, one StateSync, one
\* Actions batch, one Objectives message and the turn states queued for p,
\* and after a call that returns nothing the next returns nothing and leaves
\* the room as it is.
C40_DrainLoopTerminates ==
    \A p \in DOMAIN actors :
        LET types == DrainRun(Room, p, 4 + Queued(p))
        IN  /\ Times(types, "MORE") = 0
            /\ Times(types, "MAP_UPDATE") <= 1
            /\ Times(types, "STATE_SYNC") <= 1
            /\ Times(types, "ACTIONS") <= 1
            /\ Times(types, "OBJECTIVE") <= 1
            /\ Times(types, "GAME_STATE") = Queued(p)
            /\ Times(types, "MORE") = 0 =>
                    LET s == drain_all(World(Room, mirror), p).s
                    IN  /\ s.returned.message.type = "NONE"
                        /\ drain_message(s, p) = s

\* A leader has been admitted and has sent an objective, and a tick has
\* queued a turn state: the write loop is to drain the map, the state sync,
\* the objectives and the turn state, and then nothing.
C40_Witness ==
    \E p \in DOMAIN actors :
        DrainRun(Room, p, 4 + Queued(p)) =
            << "MAP_UPDATE", "STATE_SYNC", "OBJECTIVE", "GAME_STATE" >>

====
